---- MODULE Spec2Model ----
(***************************************************************************)
(* NextSight v2: zone intersection and workflow state engine.              *)
(*                                                                         *)
(*   ProcessManager      nextsight/core/process_manager.py                 *)
(*   ZoneManager         nextsight/zones/zone_manager.py   (event router)  *)
(*   ZoneConfig          nextsight/zones/zone_config.py                    *)
(*   IntersectionDetector, HandZoneState                                   *)
(*                       nextsight/zones/intersection_detector.py          *)
(*                                                                         *)
(* Identifiers are modelled as strings.  A process id "process_N" is the   *)
(* number N (the f-string is injective in N).  Python dicts keyed by hand  *)
(* are functions over Hands whose value None means "key absent".           *)
(* Time is counted in ticks of 0.5 s.  Confidences are hundredths.         *)
(***************************************************************************)
EXTENDS Integers, Sequences, FiniteSets, TLC

None == "None"
\* a hand that is not a key of an active-pick dict
NoPick == [process_id |-> None, zone_id |-> None]

\* ---------------------------------------------------------------- bounds
MaxProcesses == 2
MaxCount == 1
MaxCrossings == 4       \* process_interaction_events calls, SpecCrossings
MaxVanishFrames == 7    \* frames before the hands stay away, SpecVanish
MaxBandSamples == 2     \* samples inside [0.3, 0.6] in one behaviour, SpecGuards
MaxReloads == 3         \* managers constructed in one behaviour, SpecReload
MaxCoordinate == 2      \* left and top of a rectangle, SpecRectangles
MaxSide == 2            \* width and height of a rectangle, SpecRectangles
MaxTally == 3           \* completions or errors of one process, SpecStatistics
MaxTallied == 2         \* processes created in one behaviour, SpecStatistics

MaxSamples == 10        \* update_confidence calls in one behaviour
MaxElapsed == 4         \* ticks the clock advances in one behaviour

MaxZones == 2           \* zones in the configuration at one time
MaxCreated == 2         \* zones created in one behaviour
MaxRecreated == 4       \* zones created in one behaviour, zones alone
MaxBatches == 3         \* process_interaction_events calls, with the engine
MaxRepeats == 4         \* process_interaction_events calls, router alone
MaxFrames == 6          \* process_frame_detections calls in one behaviour
MaxDetections == 11     \* detect_intersections calls in one behaviour
MaxIssued == 4          \* process ids handed out in one behaviour
MaxRestarts == 2        \* managers constructed on the file of an earlier one
MaxHostFrames == 6      \* frames the camera thread captures in one behaviour
MaxPickBatches == 2     \* batches of pick events in one behaviour
MaxVisitFrames == 15    \* detect_intersections calls, SpecVisits
MaxSwitches == 2        \* times the confidence of a hand changes between frames
MaxAccounted == 3       \* process_interaction_events calls, SpecAccounting
MaxNamedFrames == 6     \* detect_intersections calls, SpecNamed
MaxFed == 18            \* update_confidence calls, SpecHistory

\* ---------------------------------------------------------------- inputs
\* the width and the height of a zone whose geometry is not followed, in
\* hundredths of the frame
DefaultExtent == 30
Hands == {"left_0", "right_1"}
\* ZoneConfig.create_zone: f"{zone_type.value}_{len(self.zones):03d}"
\* f"{n:03d}"
ZoneNumber(n) ==
    (IF n < 10 THEN "00" ELSE IF n < 100 THEN "0" ELSE "") \o ToString(n)
ZoneIdFor(zone_type, n) == zone_type \o "_" \o ZoneNumber(n)
PickZoneIds == {ZoneIdFor("pick", n) : n \in 0..(MaxZones - 1)}
DropZoneIds == {ZoneIdFor("drop", n) : n \in 0..(MaxZones - 1)}
ZoneIds == PickZoneIds \cup DropZoneIds
\* ids of zones that come from a zone file or from ZoneConfig.add_zone
NamedZoneIds == {"zone", "test_zone"}
\* the numbers len(self.zones) takes when a zone is created
GeneratedNumbers == 0..(MaxZones + MaxCreated + MaxRecreated)
GeneratedIds(zone_type) == {ZoneIdFor(zone_type, n) : n \in GeneratedNumbers}
\* a string as the list of its parts between underscores: str.split('_')
Segments(id) ==
    CASE id = "left_0" -> <<"left", "0">>
      [] id = "right_1" -> <<"right", "1">>
      [] id = "zone" -> <<"zone">>
      [] id = "test_zone" -> <<"test", "zone">>
      [] id \in GeneratedIds("pick") ->
             <<"pick", ZoneNumber(CHOOSE n \in GeneratedNumbers :
                                     id = ZoneIdFor("pick", n))>>
      [] id \in GeneratedIds("drop") ->
             <<"drop", ZoneNumber(CHOOSE n \in GeneratedNumbers :
                                     id = ZoneIdFor("drop", n))>>
      \* None and the other names without an underscore
      [] OTHER -> <<id>>
\* the labels of the gesture classifier
Gestures == {"open", "closed", "pinch", "unknown"}
\* confidences of a hand-zone intersection in one frame, in hundredths
FrameConf == {20, 80}
\* ticks between two frames
FrameTicks == 1
EventTypes == {"hand_enter_zone", "hand_exit_zone",
               "pick_gesture_detected", "drop_gesture_detected"}
\* confidences fed to a tracker, in hundredths: below 0.3, in the band
\* [0.3, 0.6] and above 0.6
ConfSamples == {20, 45, 80}
\* the clock: time.time() counts seconds since 1970, so the first reading
\* is far more than any interval after the 0.0 a tracker starts with
TicksPerSecond == 2
EpochStart == 10 * TicksPerSecond

VARIABLES
    processes,          \* ProcessManager.processes, in insertion order
    process_counter,    \* ProcessManager.process_counter
    pm_active_picks,    \* ProcessManager.active_picks: hand -> (process, zone)
    zones,              \* ZoneConfig.zones, a list
    session_stats,      \* ZoneManager.session_stats
    zm_active_picks,    \* ZoneManager.active_picks: hand -> zone id
    processed_events,   \* ZoneManager.processed_events, a set of keys
    hand_zone_states,   \* IntersectionDetector.hand_zone_states
    active_intersections, \* IntersectionDetector.active_intersections
    last_gesture_events,  \* IntersectionDetector.last_gesture_events
    hzs,                \* one HandZoneState object (a debounce tracker)
    now,                \* time.time(), in ticks
    transition_at,      \* observer: time of the latest reported transition
    config_file,        \* the JSON file ProcessManager saves to and loads
    issued,             \* observer: the ids create_process has returned
    host,               \* the camera thread and the GUI thread of the host
    last                \* the operation just executed and what it returned

storeVars == <<config_file, issued>>
engineVars ==
    <<processes, process_counter, pm_active_picks, storeVars, host>>
trackerVars == <<hzs, now, transition_at>>
routerVars == <<zones, session_stats, zm_active_picks, processed_events>>
detectorVars ==
    <<hand_zone_states, active_intersections, last_gesture_events>>
vars == <<engineVars, trackerVars, routerVars, detectorVars, last>>

\* ------------------------------------------------------- ProcessManager
\* f"process_{self.process_counter}"
ProcessId(n) == "process_" \o ToString(n)

Process(n) ==
    [id |-> ProcessId(n), pick_zone_id |-> None, drop_zone_id |-> None,
     completed_count |-> 0, error_count |-> 0]

\* keys of the dict procs
ProcessIdsOf(procs) == {procs[i].id : i \in DOMAIN procs}

\* position of key pid in the dict procs (keys are unique)
ProcessIndex(procs, pid) == CHOOSE i \in DOMAIN procs : procs[i].id = pid

get_process(procs, pid) ==
    IF pid \in ProcessIdsOf(procs) THEN procs[ProcessIndex(procs, pid)]
    ELSE Process(0)

\* "for process_id, process in self.processes.items(): if ...: return
\* process_id": the first process in insertion order that names the zone
get_process_id_for_pick_zone(procs, zone_id) ==
    IF \E i \in DOMAIN procs : procs[i].pick_zone_id = zone_id
    THEN procs[CHOOSE k \in DOMAIN procs :
                   /\ procs[k].pick_zone_id = zone_id
                   /\ \A j \in 1..(k-1) : procs[j].pick_zone_id # zone_id].id
    ELSE None

get_process_id_for_drop_zone(procs, zone_id) ==
    IF \E i \in DOMAIN procs : procs[i].drop_zone_id = zone_id
    THEN procs[CHOOSE k \in DOMAIN procs :
                   /\ procs[k].drop_zone_id = zone_id
                   /\ \A j \in 1..(k-1) : procs[j].drop_zone_id # zone_id].id
    ELSE None

\* ProcessManager.save_processes: the file written from the counter and
\* the processes (json.dump of asdict of each, in dict order)
save_processes(procs, counter) ==
    [exists |-> TRUE, readable |-> TRUE, malformed |-> {},
     has_counter |-> TRUE, process_counter |-> counter, processes |-> procs]

\* no file at the path
NoFile ==
    [exists |-> FALSE, readable |-> FALSE, malformed |-> {},
     has_counter |-> FALSE, process_counter |-> 0, processes |-> <<>>]

\* the records of the file that come before the first one Process(**data)
\* rejects
LoadedBefore(file) ==
    SubSeq(file.processes, 1,
           Cardinality({i \in DOMAIN file.processes :
                            \A k \in 1..i : k \notin file.malformed}))

\* A load that ignores the saved counter and numbers on from the highest
\* id among the processes in the file.
load_processes_CounterFromIds(file) ==
    IF file.exists
    THEN [process_counter |->
              1 + Cardinality({n \in 1..(MaxIssued + 1) :
                      \E i \in DOMAIN file.processes :
                          \E m \in n..(MaxIssued + 1) :
                              file.processes[i].id = ProcessId(m)}),
          processes |-> file.processes, ret |-> TRUE]
    ELSE [process_counter |-> 1, processes |-> <<>>, ret |-> TRUE]

\* ProcessManager.load_processes on a manager just constructed.  No file:
\* the constructor's values, True.  A file that cannot be opened or is not
\* a JSON object: the exception comes before any assignment, the
\* constructor's values, False.  Otherwise the file's counter and its
\* records in file order, up to the first record Process(**data) rejects;
\* data.get('process_counter', 1) is 1 for a file without the key.
load_processes(file) ==
    IF ~file.exists
    THEN [process_counter |-> 1, processes |-> <<>>, ret |-> TRUE]
    ELSE IF ~file.readable
    THEN [process_counter |-> 1, processes |-> <<>>, ret |-> FALSE]
    ELSE [process_counter |-> IF file.has_counter THEN file.process_counter
                              ELSE 1,
          processes |-> LoadedBefore(file),
          ret |-> file.malformed = {}]

\* "self.processes[process_id] = process" replaces the value of a key the
\* dict already has and keeps the key's place
create_process ==
    /\ Len(processes) < MaxProcesses
    /\ processes' =
           IF ProcessId(process_counter) \in ProcessIdsOf(processes)
           THEN [processes EXCEPT
                     ![ProcessIndex(processes, ProcessId(process_counter))] =
                         Process(process_counter)]
           ELSE Append(processes, Process(process_counter))
    /\ process_counter' = process_counter + 1
    /\ config_file' = save_processes(processes', process_counter')
    /\ issued' = issued \cup {ProcessId(process_counter)}
    /\ last' = [op |-> "create_process", hand |-> None, zone |-> None,
                ret |-> TRUE, branch |-> ProcessId(process_counter), n |-> last.n,
                events |-> <<>>, fwd |-> <<>>]
    /\ UNCHANGED <<pm_active_picks, host, trackerVars, routerVars,
                   detectorVars>>

\* del self.processes[process_id]
remove_process(procs, process_id) ==
    LET i == ProcessIndex(procs, process_id) IN
    SubSeq(procs, 1, i - 1) \o SubSeq(procs, i + 1, Len(procs))

\* A deletion that leaves the active picks made in the process.
DeleteResult_KeepPicks(procs, picks, process_id) ==
    IF process_id \notin ProcessIdsOf(procs)
    THEN [processes |-> procs, picks |-> picks, ret |-> FALSE]
    ELSE [processes |-> remove_process(procs, process_id),
          picks |-> picks, ret |-> TRUE]

\* delete_process on the engine state (procs, picks): the new state and
\* the value returned
DeleteResult(procs, picks, process_id) ==
    IF process_id \notin ProcessIdsOf(procs)
    THEN [processes |-> procs, picks |-> picks, ret |-> FALSE]
    ELSE [processes |-> remove_process(procs, process_id),
          picks |-> [h \in DOMAIN picks |->
                        IF picks[h].process_id = process_id THEN NoPick
                        ELSE picks[h]],
          ret |-> TRUE]

\* ProcessManager.delete_process(process_id)
delete_process(process_id) ==
    LET r == DeleteResult(processes, pm_active_picks, process_id) IN
    /\ processes' = r.processes
    /\ pm_active_picks' = r.picks
    /\ config_file' = IF r.ret
                      THEN save_processes(r.processes, process_counter)
                      ELSE config_file
    /\ last' = [op |-> "delete_process", hand |-> None, zone |-> None,
                ret |-> r.ret, branch |-> process_id, n |-> last.n,
                events |-> <<>>, fwd |-> <<>>]
    /\ UNCHANGED <<process_counter, issued, host, trackerVars, routerVars,
                   detectorVars>>

\* ProcessManager.clear_all_processes(): delete_process for every process
\* (each one takes the picks made in it away and saves), then the active
\* picks are cleared, the counter is set to 1 and the file is saved
clear_all_processes ==
    /\ processes' = <<>>
    /\ pm_active_picks' = [h \in Hands |-> NoPick]
    /\ process_counter' = 1
    /\ config_file' = save_processes(<<>>, 1)
    /\ last' = [op |-> "clear_all_processes", hand |-> None, zone |-> None,
                ret |-> TRUE, branch |-> None, n |-> last.n,
                events |-> <<>>, fwd |-> <<>>]
    /\ UNCHANGED <<issued, host, trackerVars, routerVars, detectorVars>>

\* ProcessManager.save_processes() called from outside a handler
SaveProcesses ==
    /\ config_file' = save_processes(processes, process_counter)
    /\ last' = [op |-> "save_processes", hand |-> None, zone |-> None,
                ret |-> TRUE, branch |-> None, n |-> last.n,
                events |-> <<>>, fwd |-> <<>>]
    /\ UNCHANGED <<processes, process_counter, pm_active_picks, issued, host,
                   trackerVars, routerVars, detectorVars>>

\* ProcessManager.__init__(config_file) on the file a manager left: the
\* new manager replaces the old one
ProcessManager_init ==
    LET data == load_processes(config_file) IN
    /\ processes' = data.processes
    /\ process_counter' = data.process_counter
    /\ pm_active_picks' = [h \in Hands |-> NoPick]
    /\ last' = [op |-> "ProcessManager_init", hand |-> None, zone |-> None,
                ret |-> data.ret, branch |-> None, n |-> last.n + 1,
                events |-> <<>>, fwd |-> <<>>]
    /\ UNCHANGED <<storeVars, host, trackerVars, routerVars, detectorVars>>

\* the file is rewritten between two runs by something other than
\* save_processes: the key 'process_counter' is dropped or its value is
\* replaced by counter
RewriteCounter(has_counter, counter) ==
    /\ config_file.exists
    /\ config_file.readable
    /\ config_file.has_counter
    /\ ~has_counter \/ counter # config_file.process_counter
    /\ config_file' = [config_file EXCEPT
                           !.has_counter = has_counter,
                           !.process_counter =
                               IF has_counter THEN counter ELSE 0]
    /\ last' = [op |-> "rewrite_counter", hand |-> None, zone |-> None,
                ret |-> TRUE, branch |-> None, n |-> last.n,
                events |-> <<>>, fwd |-> <<>>]
    /\ UNCHANGED <<processes, process_counter, pm_active_picks, issued, host,
                   trackerVars, routerVars, detectorVars>>

\* the file is damaged between two runs: it becomes unreadable or corrupt
\* JSON, or the records at the places malformed no longer fit Process
DamageFile(readable, malformed) ==
    /\ config_file.exists
    /\ config_file.readable
    /\ config_file.malformed = {}
    /\ ~readable \/ malformed # {}
    /\ config_file' = [config_file EXCEPT !.readable = readable,
                                          !.malformed = malformed]
    /\ last' = [op |-> "damage_file", hand |-> None, zone |-> None,
                ret |-> TRUE, branch |-> None, n |-> last.n,
                events |-> <<>>, fwd |-> <<>>]
    /\ UNCHANGED <<processes, process_counter, pm_active_picks, issued,
                   host, trackerVars, routerVars, detectorVars>>

\* An association that fills in the zones a process lacks and keeps the
\* ones it has.
AssociateResult_KeepPrior(procs, process_id, pick_zone_id, drop_zone_id) ==
    IF process_id \notin ProcessIdsOf(procs)
    THEN [processes |-> procs, ret |-> FALSE]
    ELSE LET i == ProcessIndex(procs, process_id) IN
         [processes |-> [procs EXCEPT
              ![i].pick_zone_id = IF @ = None THEN pick_zone_id ELSE @,
              ![i].drop_zone_id = IF @ = None THEN drop_zone_id ELSE @],
          ret |-> TRUE]

\* associate_zones on the processes procs: the new processes and the
\* value returned
AssociateResult(procs, process_id, pick_zone_id, drop_zone_id) ==
    IF process_id \notin ProcessIdsOf(procs)
    THEN [processes |-> procs, ret |-> FALSE]
    ELSE LET i == ProcessIndex(procs, process_id) IN
         [processes |-> [procs EXCEPT ![i].pick_zone_id = pick_zone_id,
                                      ![i].drop_zone_id = drop_zone_id],
          ret |-> TRUE]

\* ProcessManager.associate_zones(process_id, pick_zone_id, drop_zone_id)
associate_zones(process_id, pick_zone_id, drop_zone_id) ==
    LET r == AssociateResult(processes, process_id, pick_zone_id,
                             drop_zone_id) IN
    /\ processes' = r.processes
    /\ config_file' = IF r.ret
                      THEN save_processes(r.processes, process_counter)
                      ELSE config_file
    /\ last' = [op |-> "associate_zones", hand |-> None, zone |-> None,
                ret |-> r.ret,
                branch |-> IF r.ret THEN process_id ELSE "unknown",
                n |-> last.n, events |-> <<>>, fwd |-> <<>>,
                args |-> <<process_id, pick_zone_id, drop_zone_id>>]
    /\ UNCHANGED <<process_counter, pm_active_picks, issued, host, trackerVars,
                   routerVars, detectorVars>>

\* A pick by a hand that already holds one keeps the earlier record.
PickResult_KeepEarlierPick(procs, picks, hand_id, zone_id) ==
    LET process_id == get_process_id_for_pick_zone(procs, zone_id) IN
    IF process_id = None
    THEN [processes |-> procs, picks |-> picks, ret |-> FALSE,
          branch |-> "no_pick_process"]
    ELSE [processes |-> procs,
          picks |-> IF picks[hand_id] # NoPick THEN picks
                    ELSE [picks EXCEPT ![hand_id] =
                             [process_id |-> process_id,
                              zone_id |-> zone_id]],
          ret |-> TRUE, branch |-> "picked"]

\* handle_pick_event on the engine state (procs, picks): the new active
\* picks and the value returned.
PickResult(procs, picks, hand_id, zone_id) ==
    LET process_id == get_process_id_for_pick_zone(procs, zone_id) IN
    IF process_id = None
    THEN [processes |-> procs, picks |-> picks, ret |-> FALSE,
          branch |-> "no_pick_process"]
    ELSE [processes |-> procs,
          picks |-> [picks EXCEPT ![hand_id] =
                        [process_id |-> process_id, zone_id |-> zone_id]],
          ret |-> TRUE, branch |-> "picked"]

handle_pick_event(hand_id, zone_id) ==
    LET r == PickResult(processes, pm_active_picks, hand_id, zone_id) IN
    /\ pm_active_picks' = r.picks
    /\ last' = [op |-> "handle_pick_event", hand |-> hand_id,
                zone |-> zone_id, ret |-> r.ret, branch |-> r.branch, n |-> last.n,
                events |-> <<>>, fwd |-> <<>>]
    /\ UNCHANGED <<processes, process_counter, storeVars, host, trackerVars,
                   routerVars, detectorVars>>

\* A wrong-process drop that charges the error to the process owning the
\* drop zone instead of the picked-from process.
DropResult_ErrorOnDropProcess(procs, picks, hand_id, zone_id) ==
    IF picks[hand_id] = NoPick
    THEN [processes |-> procs, picks |-> picks, ret |-> FALSE,
          branch |-> "no_active_pick"]
    ELSE LET active_process_id == picks[hand_id].process_id
             drop_process_id == get_process_id_for_drop_zone(procs, zone_id)
         IN IF drop_process_id = None
            THEN [processes |-> procs, picks |-> picks, ret |-> FALSE,
                  branch |-> "no_drop_process"]
            ELSE IF active_process_id = drop_process_id
            THEN [processes |-> [procs EXCEPT
                      ![ProcessIndex(procs, active_process_id)]
                          .completed_count = @ + 1],
                  picks |-> [picks EXCEPT ![hand_id] = NoPick],
                  ret |-> TRUE, branch |-> "completed"]
            ELSE [processes |-> [procs EXCEPT
                      ![ProcessIndex(procs, drop_process_id)]
                          .error_count = @ + 1],
                  picks |-> [picks EXCEPT ![hand_id] = NoPick],
                  ret |-> FALSE, branch |-> "wrong_process"]

\* A wrong-process drop that keeps the active pick (the hand may retry).
DropResult_KeepPickOnError(procs, picks, hand_id, zone_id) ==
    IF picks[hand_id] = NoPick
    THEN [processes |-> procs, picks |-> picks, ret |-> FALSE,
          branch |-> "no_active_pick"]
    ELSE LET active_process_id == picks[hand_id].process_id
             drop_process_id == get_process_id_for_drop_zone(procs, zone_id)
         IN IF drop_process_id = None
            THEN [processes |-> procs, picks |-> picks, ret |-> FALSE,
                  branch |-> "no_drop_process"]
            ELSE IF active_process_id = drop_process_id
            THEN [processes |-> [procs EXCEPT
                      ![ProcessIndex(procs, active_process_id)]
                          .completed_count = @ + 1],
                  picks |-> [picks EXCEPT ![hand_id] = NoPick],
                  ret |-> TRUE, branch |-> "completed"]
            ELSE [processes |-> [procs EXCEPT
                      ![ProcessIndex(procs, active_process_id)]
                          .error_count = @ + 1],
                  picks |-> picks,
                  ret |-> FALSE, branch |-> "wrong_process"]

\* A wrong-process drop that charges the error to both processes.
DropResult_ChargesBoth(procs, picks, hand_id, zone_id) ==
    LET active_process_id == picks[hand_id].process_id
        drop_process_id == get_process_id_for_drop_zone(procs, zone_id)
    IN IF picks[hand_id] = NoPick
       THEN [processes |-> procs, picks |-> picks, ret |-> FALSE,
             branch |-> "no_active_pick"]
       ELSE IF drop_process_id = None
       THEN [processes |-> procs, picks |-> picks, ret |-> FALSE,
             branch |-> "no_drop_process"]
       ELSE IF active_process_id = drop_process_id
       THEN [processes |-> [procs EXCEPT
                 ![ProcessIndex(procs, active_process_id)]
                     .completed_count = @ + 1],
             picks |-> [picks EXCEPT ![hand_id] = NoPick],
             ret |-> TRUE, branch |-> "completed"]
       ELSE [processes |-> [procs EXCEPT
                 ![ProcessIndex(procs, active_process_id)]
                     .error_count = @ + 1,
                 ![ProcessIndex(procs, drop_process_id)]
                     .error_count = @ + 1],
             picks |-> [picks EXCEPT ![hand_id] = NoPick],
             ret |-> FALSE, branch |-> "wrong_process"]

\* handle_drop_event on the engine state (procs, picks): the new state, the
\* value returned and the branch of the handler that ran.  The router's
\* process_drop_event signal is connected to this slot.
DropResult(procs, picks, hand_id, zone_id) ==
    IF picks[hand_id] = NoPick
    THEN [processes |-> procs, picks |-> picks, ret |-> FALSE,
          branch |-> "no_active_pick"]
    ELSE LET active_process_id == picks[hand_id].process_id
             drop_process_id == get_process_id_for_drop_zone(procs, zone_id)
         IN IF drop_process_id = None
            THEN [processes |-> procs, picks |-> picks, ret |-> FALSE,
                  branch |-> "no_drop_process"]
            ELSE IF active_process_id = drop_process_id
            THEN [processes |-> [procs EXCEPT
                      ![ProcessIndex(procs, active_process_id)]
                          .completed_count = @ + 1],
                  picks |-> [picks EXCEPT ![hand_id] = NoPick],
                  ret |-> TRUE, branch |-> "completed"]
            ELSE [processes |-> [procs EXCEPT
                      ![ProcessIndex(procs, active_process_id)]
                          .error_count = @ + 1],
                  picks |-> [picks EXCEPT ![hand_id] = NoPick],
                  ret |-> FALSE, branch |-> "wrong_process"]

CountersWithin(procs) ==
    \A i \in DOMAIN procs : /\ procs[i].completed_count <= MaxCount
                            /\ procs[i].error_count <= MaxCount

\* ProcessManager.handle_drop_event(hand_id, zone_id), taken while no
\* counter of a process passes cap
handle_drop_event_upto(hand_id, zone_id, cap) ==
    LET r == DropResult(processes, pm_active_picks, hand_id, zone_id) IN
    /\ \A i \in DOMAIN r.processes : /\ r.processes[i].completed_count <= cap
                                     /\ r.processes[i].error_count <= cap
    /\ processes' = r.processes
    /\ pm_active_picks' = r.picks
    /\ config_file' = IF r.branch \in {"completed", "wrong_process"}
                      THEN save_processes(r.processes, process_counter)
                      ELSE config_file
    /\ last' = [op |-> "handle_drop_event", hand |-> hand_id,
                zone |-> zone_id, ret |-> r.ret, branch |-> r.branch, n |-> last.n,
                events |-> <<>>, fwd |-> <<>>]
    /\ UNCHANGED <<process_counter, issued, host, trackerVars, routerVars,
                   detectorVars>>

handle_drop_event(hand_id, zone_id) ==
    handle_drop_event_upto(hand_id, zone_id, MaxCount)

\* sum(f(p) for p in self.processes.values()) over the first n processes
RECURSIVE SumCounts(_, _, _)
SumCounts(procs, field, n) ==
    IF n = 0 THEN 0 ELSE SumCounts(procs, field, n - 1) + procs[n][field]

RECURSIVE gcd(_, _)
gcd(a, b) == IF b = 0 THEN a ELSE gcd(b, a % b)

\* the number num / den as a fraction in lowest terms
Fraction(num, den) ==
    [num |-> num \div gcd(num, den), den |-> den \div gcd(num, den)]

\* the float 0.0
Zero == [num |-> 0, den |-> 1]

\* Statistics whose success rate divides by the number of processes.
get_statistics_PerProcess(procs, picks) ==
    LET total_completed == SumCounts(procs, "completed_count", Len(procs))
        total_errors == SumCounts(procs, "error_count", Len(procs))
    IN [total_processes |-> Len(procs),
        total_completed |-> total_completed,
        total_errors |-> total_errors,
        active_picks |-> Cardinality({h \in Hands : picks[h] # NoPick}),
        success_rate |-> IF Len(procs) > 0
                         THEN Fraction(total_completed * 100, Len(procs))
                         ELSE Zero]

\* ProcessManager.get_statistics()
get_statistics(procs, picks) ==
    LET total_completed == SumCounts(procs, "completed_count", Len(procs))
        total_errors == SumCounts(procs, "error_count", Len(procs))
    IN [total_processes |-> Len(procs),
        total_completed |-> total_completed,
        total_errors |-> total_errors,
        active_picks |-> Cardinality({h \in Hands : picks[h] # NoPick}),
        success_rate |-> IF total_completed + total_errors > 0
                         THEN Fraction(total_completed * 100,
                                       total_completed + total_errors)
                         ELSE Zero]

\* a caller reads the statistics
GetStatistics ==
    /\ last' = [op |-> "get_statistics", hand |-> None, zone |-> None,
                ret |-> TRUE, branch |-> None, n |-> last.n,
                events |-> <<>>, fwd |-> <<>>,
                stats |-> get_statistics(processes, pm_active_picks)]
    /\ UNCHANGED <<engineVars, trackerVars, routerVars, detectorVars>>
required_stability == 5
min_event_interval == 1 * TicksPerSecond

\* HandZoneState.__init__
HandZoneState ==
    [is_inside |-> FALSE, entry_time |-> None, exit_time |-> None,
     confidence_history |-> <<>>, last_event_time |-> 0]

\* s[-n:] of a Python list
Tail_n(s, n) ==
    IF Len(s) <= n THEN s ELSE SubSeq(s, Len(s) - n + 1, Len(s))

\* A count of the samples at or above 0.6.
recent_high_Inclusive(history) ==
    LET w == Tail_n(history, required_stability) IN
    Cardinality({i \in DOMAIN w : w[i] >= 60})

\* sum(1 for c in history[-required_stability:] if c > 0.6)
recent_high(history) ==
    LET w == Tail_n(history, required_stability) IN
    Cardinality({i \in DOMAIN w : w[i] > 60})

\* sum(1 for c in history[-required_stability:] if c < 0.3)
recent_low(history) ==
    LET w == Tail_n(history, required_stability) IN
    Cardinality({i \in DOMAIN w : w[i] < 30})

\* A full history that drops the sample just fed.
push_confidence_DropsNewest(history, confidence) ==
    LET h == Append(history, confidence) IN
    IF Len(h) > 15 THEN SubSeq(h, 1, 15) ELSE h

\* append, then "if len(...) > 15: pop(0)"
push_confidence(history, confidence) ==
    LET h == Append(history, confidence) IN
    IF Len(h) > 15 THEN Tail(h) ELSE h

\* Off by one in the stability test: four high samples are enough to enter.
update_confidence_OneSampleShort(st, confidence, current_time) ==
    LET h == push_confidence(st.confidence_history, confidence)
        st1 == [st EXCEPT !.confidence_history = h]
    IN IF ~st.is_inside
       THEN IF /\ recent_high(h) >= required_stability - 1
               /\ current_time - st.last_event_time >= min_event_interval
            THEN [state |-> [st1 EXCEPT !.is_inside = TRUE,
                                        !.entry_time = current_time,
                                        !.last_event_time = current_time],
                  ret |-> TRUE]
            ELSE [state |-> st1, ret |-> FALSE]
       ELSE IF /\ recent_low(h) >= required_stability
               /\ current_time - st.last_event_time >= min_event_interval
            THEN [state |-> [st1 EXCEPT !.is_inside = FALSE,
                                        !.exit_time = current_time,
                                        !.last_event_time = current_time],
                  ret |-> TRUE]
            ELSE [state |-> st1, ret |-> FALSE]

\* The exit path without the minimum-interval test.
update_confidence_ExitUnguarded(st, confidence, current_time) ==
    LET h == push_confidence(st.confidence_history, confidence)
        st1 == [st EXCEPT !.confidence_history = h]
    IN IF ~st.is_inside
       THEN IF /\ recent_high(h) >= required_stability
               /\ current_time - st.last_event_time >= min_event_interval
            THEN [state |-> [st1 EXCEPT !.is_inside = TRUE,
                                        !.entry_time = current_time,
                                        !.last_event_time = current_time],
                  ret |-> TRUE]
            ELSE [state |-> st1, ret |-> FALSE]
       ELSE IF recent_low(h) >= required_stability
            THEN [state |-> [st1 EXCEPT !.is_inside = FALSE,
                                        !.exit_time = current_time,
                                        !.last_event_time = current_time],
                  ret |-> TRUE]
            ELSE [state |-> st1, ret |-> FALSE]

\* HandZoneState.update_confidence at clock reading current_time: the new
\* tracker and the value returned
update_confidence(st, confidence, current_time) ==
    LET h == push_confidence(st.confidence_history, confidence)
        st1 == [st EXCEPT !.confidence_history = h]
    IN IF ~st.is_inside
       THEN IF /\ recent_high(h) >= required_stability
               /\ current_time - st.last_event_time >= min_event_interval
            THEN [state |-> [st1 EXCEPT !.is_inside = TRUE,
                                        !.entry_time = current_time,
                                        !.last_event_time = current_time],
                  ret |-> TRUE]
            ELSE [state |-> st1, ret |-> FALSE]
       ELSE IF /\ recent_low(h) >= required_stability
               /\ current_time - st.last_event_time >= min_event_interval
            THEN [state |-> [st1 EXCEPT !.is_inside = FALSE,
                                        !.exit_time = current_time,
                                        !.last_event_time = current_time],
                  ret |-> TRUE]
            ELSE [state |-> st1, ret |-> FALSE]

\* one call of update_confidence on the tracker, dt ticks after the
\* previous one, in a behaviour of at most samples calls and elapsed ticks
UpdateConfidence_upto(confidence, dt, samples, elapsed) ==
    LET t == now + dt
        r == update_confidence(hzs, confidence, t) IN
    /\ last.n < samples
    /\ t <= EpochStart + elapsed
    /\ now' = t
    /\ hzs' = r.state
    /\ transition_at' = IF r.ret THEN t ELSE transition_at
    /\ last' = [op |-> "update_confidence", hand |-> None, zone |-> None,
                ret |-> r.ret, branch |-> None, n |-> last.n + 1,
                events |-> <<>>, fwd |-> <<>>, sample |-> confidence]
    /\ UNCHANGED <<engineVars, routerVars, detectorVars>>

UpdateConfidence(confidence, dt) ==
    UpdateConfidence_upto(confidence, dt, MaxSamples, MaxElapsed)

\* ------------------------------------------------ ZoneConfig, ZoneManager
\* Zone: the fields the detector and the router read or write
\* width and height are in hundredths of the frame
Zone(zone_id, zone_type) ==
    [id |-> zone_id, zone_type |-> zone_type, hands_inside |-> <<>>,
     interaction_count |-> 0, width |-> DefaultExtent,
     height |-> DefaultExtent]

ZoneIdsOf(zs) == {zs[i].id : i \in DOMAIN zs}

\* ZoneConfig.get_zone, for an id that is in the list
get_zone(zs, zone_id) == zs[CHOOSE i \in DOMAIN zs : zs[i].id = zone_id]

\* ZoneConfig.remove_zone: del self.zones[i] for the zone with that id
remove_zone(zs, zone_id) ==
    LET i == CHOOSE k \in DOMAIN zs : zs[k].id = zone_id IN
    SubSeq(zs, 1, i - 1) \o SubSeq(zs, i + 1, Len(zs))

\* the dedupe keys of process_interaction_events; the f-strings
\* "enter_{hand}_{zone}", "pick_gesture_{hand}_{zone}" and
\* "drop_gesture_{hand}_{zone}" are kept as their three parts
enter_key(event) == <<"enter", event.hand_id, event.zone_id>>
pick_key(event) == <<"pick_gesture", event.hand_id, event.zone_id>>
drop_key(event) == <<"drop_gesture", event.hand_id, event.zone_id>>
\* f"{type}_{hand}_{zone}_{timestamp}"
event_key(event, timestamp) ==
    <<event.type, event.hand_id, event.zone_id, timestamp>>

\* processed_events holds the keys of the pairs the model follows and
\* counts the keys of all other (hand, zone) pairs
EventCap == 100
ProcessedSize(pe) == Cardinality(pe.keys) + pe.others

\* A cleanup that starts one entry late.
cleanup_processed_events_Late(pe) ==
    IF ProcessedSize(pe) <= EventCap + 1 THEN {pe}
    ELSE {[pe EXCEPT !.keys = @ \ {k}] : k \in pe.keys}
         \cup (IF pe.others > 0 THEN {[pe EXCEPT !.others = @ - 1]} ELSE {})

\* "if len(self.processed_events) > 100: self.processed_events =
\* set(list(self.processed_events)[-100:])": the elements dropped are the
\* first ones in the iteration order of a set of strings, which is any
\* order; the result is every set the statement can produce
cleanup_processed_events(pe) ==
    IF ProcessedSize(pe) <= EventCap THEN {pe}
    ELSE {[pe EXCEPT !.keys = @ \ {k}] : k \in pe.keys}
         \cup (IF pe.others > 0 THEN {[pe EXCEPT !.others = @ - 1]} ELSE {})

\* the state one call of process_interaction_events works on: the router's
\* fields, the engine's (the process_pick_event and process_drop_event
\* signals are connected to its slots) and the slots called so far
RouterState ==
    [session_stats |-> session_stats, active_picks |-> zm_active_picks,
     processed_events |-> processed_events, processes |-> processes,
     pm_active_picks |-> pm_active_picks, fwd |-> <<>>]

\* the pick branch: count, track the hand, emit, mark the key
CountPick(R, event, key) ==
    LET r == PickResult(R.processes, R.pm_active_picks,
                        event.hand_id, event.zone_id) IN
    [R EXCEPT !.session_stats.total_picks = @ + 1,
              !.active_picks[event.hand_id] = event.zone_id,
              !.pm_active_picks = r.picks,
              !.fwd = Append(@, [kind |-> "pick", hand |-> event.hand_id,
                                 zone |-> event.zone_id, ret |-> r.ret,
                                 branch |-> r.branch]),
              !.processed_events.keys = @ \cup {key}]

\* A drop branch that leaves the pick of the hand in active_picks.
CountDrop_KeepsPick(R, event, key) ==
    LET r == DropResult(R.processes, R.pm_active_picks,
                        event.hand_id, event.zone_id) IN
    [R EXCEPT !.session_stats.total_drops = @ + 1,
              !.processes = r.processes,
              !.pm_active_picks = r.picks,
              !.fwd = Append(@, [kind |-> "drop", hand |-> event.hand_id,
                                 zone |-> event.zone_id, ret |-> r.ret,
                                 branch |-> r.branch]),
              !.processed_events.keys = @ \cup {key}]

\* the drop branch for a hand that is in active_picks
CountDrop(R, event, key) ==
    LET r == DropResult(R.processes, R.pm_active_picks,
                        event.hand_id, event.zone_id) IN
    [R EXCEPT !.session_stats.total_drops = @ + 1,
              !.active_picks[event.hand_id] = None,
              !.processes = r.processes,
              !.pm_active_picks = r.picks,
              !.fwd = Append(@, [kind |-> "drop", hand |-> event.hand_id,
                                 zone |-> event.zone_id, ret |-> r.ret,
                                 branch |-> r.branch]),
              !.processed_events.keys = @ \cup {key}]

\* A loop body whose exit handling takes the enter key of the pair out of
\* the processed events.
RouteEvent_ExitRearms(zs, R, event, timestamp) ==
    LET keys == R.processed_events.keys
        has_pick == R.active_picks[event.hand_id] # None
        R1 == CASE event.type = "hand_enter_zone" ->
                     IF \/ event.zone_id \notin ZoneIdsOf(zs)
                        \/ enter_key(event) \in keys
                     THEN R
                     ELSE IF get_zone(zs, event.zone_id).zone_type = "pick"
                     THEN CountPick(R, event, enter_key(event))
                     ELSE IF has_pick
                     THEN CountDrop(R, event, enter_key(event))
                     ELSE R
                [] event.type = "hand_exit_zone" ->
                     [R EXCEPT !.processed_events.keys =
                                   @ \ {enter_key(event)}]
                [] event.type = "pick_gesture_detected" ->
                     IF pick_key(event) \in keys THEN R
                     ELSE CountPick(R, event, pick_key(event))
                [] event.type = "drop_gesture_detected" ->
                     IF drop_key(event) \in keys \/ ~has_pick THEN R
                     ELSE CountDrop(R, event, drop_key(event))
                [] OTHER -> R
    IN IF event_key(event, timestamp) \in keys THEN {R}
       ELSE {[R1 EXCEPT !.processed_events = pe] :
                 pe \in cleanup_processed_events(R1.processed_events)}

\* the body of the loop of process_interaction_events for one event: the
\* set of states it can leave
RouteEvent(zs, R, event, timestamp) ==
    LET keys == R.processed_events.keys
        has_pick == R.active_picks[event.hand_id] # None
        R1 == CASE event.type = "hand_enter_zone" ->
                     IF \/ event.zone_id \notin ZoneIdsOf(zs)
                        \/ enter_key(event) \in keys
                     THEN R
                     ELSE IF get_zone(zs, event.zone_id).zone_type = "pick"
                     THEN CountPick(R, event, enter_key(event))
                     ELSE IF has_pick
                     THEN CountDrop(R, event, enter_key(event))
                     ELSE R
                [] event.type = "pick_gesture_detected" ->
                     IF pick_key(event) \in keys THEN R
                     ELSE CountPick(R, event, pick_key(event))
                [] event.type = "drop_gesture_detected" ->
                     IF drop_key(event) \in keys \/ ~has_pick THEN R
                     ELSE CountDrop(R, event, drop_key(event))
                [] OTHER -> R
    IN IF event_key(event, timestamp) \in keys THEN {R}
       ELSE {[R1 EXCEPT !.processed_events = pe] :
                 pe \in cleanup_processed_events(R1.processed_events)}

RECURSIVE RouteBatch(_, _, _, _)
\* "for event in events": the states the loop can end in
RouteBatch(zs, Rs, events, timestamp) ==
    IF events = <<>> THEN Rs
    ELSE RouteBatch(zs,
                    UNION {RouteEvent(zs, R, Head(events), timestamp) :
                               R \in Rs},
                    Tail(events), timestamp)

\* the file after the slots of R.fwd have run: handle_drop_event saves the
\* processes each time it resolves a drop
SavedAfter(R) ==
    IF \E i \in DOMAIN R.fwd :
           /\ R.fwd[i].kind = "drop"
           /\ R.fwd[i].branch \in {"completed", "wrong_process"}
    THEN save_processes(R.processes, process_counter)
    ELSE config_file

\* ZoneManager.process_interaction_events(events)
process_interaction_events(events) ==
    /\ \E R \in RouteBatch(zones, {RouterState}, events, now) :
         /\ CountersWithin(R.processes)
         /\ session_stats' = R.session_stats
         /\ zm_active_picks' = R.active_picks
         /\ processed_events' = R.processed_events
         /\ processes' = R.processes
         /\ pm_active_picks' = R.pm_active_picks
         /\ config_file' = SavedAfter(R)
         /\ last' = [op |-> "process_interaction_events", hand |-> None,
                     zone |-> None, ret |-> TRUE, branch |-> None,
                     n |-> last.n + 1, events |-> events, fwd |-> R.fwd]
    /\ UNCHANGED <<zones, process_counter, issued, host, trackerVars,
                   detectorVars>>

\* ZoneManager.process_interaction_events on a batch of k
\* pick_gesture_detected events, each from a (hand, zone) pair the model
\* does not follow and not seen before.  Each is counted and marked, and
\* its hand (not one of Hands) gets an active pick; the engine finds no
\* process for its zone and changes nothing.  The batch fits under the
\* cap, so cleanup does not run.
process_interaction_events_others(k) ==
    /\ k > 0
    /\ processed_events.others = 0
    /\ ProcessedSize(processed_events) + k <= EventCap
    /\ session_stats' = [session_stats EXCEPT !.total_picks = @ + k]
    /\ processed_events' = [processed_events EXCEPT !.others = @ + k]
    /\ last' = [op |-> "process_interaction_events_others", hand |-> None,
                zone |-> None, ret |-> TRUE, branch |-> None,
                n |-> last.n + 1, events |-> <<>>, fwd |-> <<>>]
    /\ UNCHANGED <<zones, zm_active_picks, engineVars, trackerVars,
                   detectorVars>>

\* ZoneManager.create_zone_direct(name, zone_type, x, y, width, height)
create_zone_direct_sized(zone_type, width, height) ==
    LET zone_id == ZoneIdFor(zone_type, Len(zones)) IN
    /\ Len(zones) < MaxZones
    /\ IF zone_id \in ZoneIdsOf(zones)
       THEN /\ UNCHANGED <<zones, session_stats>>
            /\ last' = [op |-> "create_zone_direct", hand |-> None,
                        zone |-> zone_id, ret |-> FALSE, branch |-> None,
                        n |-> last.n, events |-> <<>>, fwd |-> <<>>]
       ELSE /\ zones' = Append(zones, [Zone(zone_id, zone_type) EXCEPT
                                          !.width = width, !.height = height])
            /\ session_stats' =
                   [session_stats EXCEPT !.zones_created = @ + 1]
            /\ last' = [op |-> "create_zone_direct", hand |-> None,
                        zone |-> zone_id, ret |-> TRUE, branch |-> None,
                        n |-> last.n, events |-> <<>>, fwd |-> <<>>]
    /\ UNCHANGED <<zm_active_picks, processed_events, engineVars,
                   trackerVars, detectorVars>>

\* create_zone_direct with a geometry that is not followed
create_zone_direct(zone_type) ==
    create_zone_direct_sized(zone_type, DefaultExtent, DefaultExtent)

\* ----------------------------------------------------------- ZoneCreator
\* the frame of the interactive creation, in pixels: one pixel is one
\* hundredth of the frame
frame_width == 100
frame_height == 100
min_zone_size == 20
\* max_zone_ratio = 0.8, in hundredths
max_zone_ratio == 80

Abs(v) == IF v < 0 THEN -v ELSE v
Min(a, b) == IF a < b THEN a ELSE b

\* geometry.create_zone_from_points on two corner points
create_zone_from_points(start_point, end_point) ==
    [x |-> Min(start_point[1], end_point[1]),
     y |-> Min(start_point[2], end_point[2]),
     width |-> Abs(end_point[1] - start_point[1]),
     height |-> Abs(end_point[2] - start_point[2])]

\* ZoneCreator._validate_zone on the rectangle of the zone
validate_zone(rect) ==
    /\ ~(rect.width < min_zone_size \/ rect.height < min_zone_size)
    /\ ~(rect.width > max_zone_ratio \/ rect.height > max_zone_ratio)
    /\ ~(rect.x < 0 \/ rect.y < 0 \/ rect.x + rect.width > frame_width
         \/ rect.y + rect.height > frame_height)

\* ZoneCreator.handle_mouse_release with the left button while a zone of
\* creation_mode is being drawn from start_point, followed by
\* ZoneManager.on_zone_created when the zone is valid.  stamp is
\* int(time.time() * 1000) % 100000, the number in the zone id.
handle_mouse_release(creation_mode, start_point, end_point, stamp) ==
    LET rect == create_zone_from_points(start_point, end_point)
        zone_id == creation_mode \o "_" \o ToString(stamp)
        added == validate_zone(rect) /\ zone_id \notin ZoneIdsOf(zones)
    IN
    /\ Len(zones) < MaxZones
    /\ IF added
       THEN /\ zones' = Append(zones, [Zone(zone_id, creation_mode) EXCEPT
                                          !.width = rect.width,
                                          !.height = rect.height])
            /\ session_stats' =
                   [session_stats EXCEPT !.zones_created = @ + 1]
       ELSE UNCHANGED <<zones, session_stats>>
    /\ last' = [op |-> "handle_mouse_release", hand |-> None,
                zone |-> zone_id, ret |-> validate_zone(rect),
                branch |-> None, n |-> last.n, events |-> <<>>,
                fwd |-> <<>>]
    /\ UNCHANGED <<zm_active_picks, processed_events, engineVars,
                   trackerVars, detectorVars>>

\* ------------------------------------------------------------- Rectangle
Max(a, b) == IF a > b THEN a ELSE b

\* Rectangle(x, y, width, height), with its properties left, right, top
\* and bottom
Rectangle(x, y, width, height) ==
    [x |-> x, y |-> y, width |-> width, height |-> height,
     left |-> x, right |-> x + width, top |-> y, bottom |-> y + height]

\* Rectangle.intersects_rectangle(other)
intersects_rectangle(self, other) ==
    ~(\/ self.right < other.left
      \/ other.right < self.left
      \/ self.bottom < other.top
      \/ other.bottom < self.top)

\* Rectangle.intersection_area(other)
intersection_area(self, other) ==
    IF ~intersects_rectangle(self, other) THEN 0
    ELSE LET left == Max(self.left, other.left)
             right == Min(self.right, other.right)
             top == Max(self.top, other.top)
             bottom == Min(self.bottom, other.bottom)
         IN (right - left) * (bottom - top)

\* a caller asks whether two rectangles intersect and for the area
IntersectsRectangle(self, other) ==
    /\ last' = [op |-> "intersects_rectangle", hand |-> None, zone |-> None,
                ret |-> intersects_rectangle(self, other), branch |-> None,
                n |-> last.n, events |-> <<>>, fwd |-> <<>>,
                args |-> <<self, other>>,
                area |-> intersection_area(self, other)]
    /\ UNCHANGED <<engineVars, trackerVars, routerVars, detectorVars>>

\* a hand-zone pair that is not a key of hand_zone_states
NoState == [is_inside |-> FALSE, entry_time |-> None, exit_time |-> None,
            confidence_history |-> <<>>, last_event_time |-> -1]

\* state_key = f"{hand_id}_{zone.id}", as its parts between underscores.
\* A hand id is f"{hand_type}_{hand_idx}", two parts, so the key tells
\* the hand and the zone it was built from.
StateKey(hand_id, zone_id) == Segments(hand_id) \o Segments(zone_id)

\* key.endswith(f"_{zone_id}"): the suffix starts with an underscore, so it
\* matches where the last parts of key are the parts of zone_id and at
\* least one part of key comes before them
key_endswith(key, zone_id) ==
    LET suffix == Segments(zone_id) IN
    /\ Len(key) > Len(suffix)
    /\ SubSeq(key, Len(key) - Len(suffix) + 1, Len(key)) = suffix

\* IntersectionDetector.reset_zone_states(zone_id) with a zone id: the keys
\* f"{hand_id}_{zone_id}" that end with "_" + zone_id are deleted.  The
\* trackers are kept under the pair (hand_id, zone_id) their key was
\* built from.
reset_zone_states(states, zone_id) ==
    [key \in DOMAIN states |->
        IF key_endswith(StateKey(key[1], key[2]), zone_id) THEN NoState
        ELSE states[key]]

\* IntersectionDetector.reset_zone_states(zone_id) called on its own
IntersectionDetector_reset_zone_states(zone_id) ==
    /\ hand_zone_states' = reset_zone_states(hand_zone_states, zone_id)
    /\ last' = [op |-> "reset_zone_states", hand |-> None, zone |-> zone_id,
                ret |-> TRUE, branch |-> None, n |-> last.n,
                events |-> <<>>, fwd |-> <<>>]
    /\ UNCHANGED <<active_intersections, last_gesture_events, routerVars,
                   engineVars, trackerVars>>

\* ZoneConfig.add_zone(zone) for a zone built by the caller, with the
\* caller's id
add_zone(zone_id, zone_type) ==
    /\ IF zone_id \in ZoneIdsOf(zones)
       THEN UNCHANGED zones
       ELSE zones' = Append(zones, Zone(zone_id, zone_type))
    /\ last' = [op |-> "add_zone", hand |-> None, zone |-> zone_id,
                ret |-> zone_id \notin ZoneIdsOf(zones), branch |-> None,
                n |-> last.n, events |-> <<>>, fwd |-> <<>>]
    /\ UNCHANGED <<session_stats, zm_active_picks, processed_events,
                   detectorVars, engineVars, trackerVars>>

\* A deletion that counts and clears before it looks the zone up.
delete_zone_CountsUnknown(zone_id) ==
    /\ session_stats' = [session_stats EXCEPT !.zones_deleted = @ + 1]
    /\ hand_zone_states' = reset_zone_states(hand_zone_states, zone_id)
    /\ zm_active_picks' =
           [h \in Hands |-> IF zm_active_picks[h] = zone_id
                            THEN None ELSE zm_active_picks[h]]
    /\ IF zone_id \in ZoneIdsOf(zones)
       THEN /\ zones' = remove_zone(zones, zone_id)
            /\ last' = [op |-> "delete_zone", hand |-> None,
                        zone |-> zone_id, ret |-> TRUE, branch |-> None,
                        n |-> last.n, events |-> <<>>, fwd |-> <<>>,
                        signals |-> <<"zone_deleted">>]
       ELSE /\ UNCHANGED zones
            /\ last' = [op |-> "delete_zone", hand |-> None,
                        zone |-> zone_id, ret |-> FALSE, branch |-> None,
                        n |-> last.n, events |-> <<>>, fwd |-> <<>>,
                        signals |-> <<>>]
    /\ UNCHANGED <<processed_events, active_intersections,
                   last_gesture_events, engineVars, trackerVars>>

\* ZoneManager.delete_zone(zone_id)
delete_zone(zone_id) ==
    /\ IF zone_id \in ZoneIdsOf(zones)
       THEN /\ zones' = remove_zone(zones, zone_id)
            /\ session_stats' =
                   [session_stats EXCEPT !.zones_deleted = @ + 1]
            /\ hand_zone_states' =
                   reset_zone_states(hand_zone_states, zone_id)
            /\ zm_active_picks' =
                   [h \in Hands |-> IF zm_active_picks[h] = zone_id
                                    THEN None ELSE zm_active_picks[h]]
            /\ last' = [op |-> "delete_zone", hand |-> None,
                        zone |-> zone_id, ret |-> TRUE, branch |-> None,
                        n |-> last.n, events |-> <<>>, fwd |-> <<>>,
                        signals |-> <<"zone_deleted">>]
       ELSE /\ UNCHANGED <<zones, session_stats, hand_zone_states,
                           zm_active_picks>>
            /\ last' = [op |-> "delete_zone", hand |-> None,
                        zone |-> zone_id, ret |-> FALSE, branch |-> None,
                        n |-> last.n, events |-> <<>>, fwd |-> <<>>,
                        signals |-> <<>>]
    /\ UNCHANGED <<processed_events, active_intersections,
                   last_gesture_events, engineVars, trackerVars>>

\* ZoneManager.clear_all_zones()
clear_all_zones ==
    /\ zones' = <<>>
    /\ hand_zone_states' = [key \in DOMAIN hand_zone_states |-> NoState]
    /\ active_intersections' = [z \in DOMAIN active_intersections |-> {}]
    /\ zm_active_picks' = [h \in Hands |-> None]
    /\ processed_events' = [keys |-> {}, others |-> 0]
    /\ last' = [op |-> "clear_all_zones", hand |-> None, zone |-> None,
                ret |-> TRUE, branch |-> None, n |-> last.n,
                events |-> <<>>, fwd |-> <<>>]
    /\ UNCHANGED <<session_stats, last_gesture_events, engineVars,
                   trackerVars>>

\* ZoneManager.reset_session_statistics()
reset_session_statistics ==
    /\ session_stats' = [total_picks |-> 0, total_drops |-> 0,
                         zones_created |-> 0, zones_deleted |-> 0]
    /\ zm_active_picks' = [h \in Hands |-> None]
    /\ processed_events' = [keys |-> {}, others |-> 0]
    /\ last' = [op |-> "reset_session_statistics", hand |-> None,
                zone |-> None, ret |-> TRUE, branch |-> None, n |-> last.n,
                events |-> <<>>, fwd |-> <<>>]
    /\ UNCHANGED <<zones, detectorVars, engineVars, trackerVars>>

\* ZoneManager.update_zone(zone): the zone of the list with zone.id is
\* replaced by the object passed
update_zone(zone) ==
    /\ IF zone.id \in ZoneIdsOf(zones)
       THEN /\ zones' = [zones EXCEPT
                   ![CHOOSE i \in DOMAIN zones : zones[i].id = zone.id] = zone]
            /\ last' = [op |-> "update_zone", hand |-> None,
                        zone |-> zone.id, ret |-> TRUE, branch |-> None,
                        n |-> last.n, events |-> <<>>, fwd |-> <<>>,
                        signals |-> <<"zone_updated">>]
       ELSE /\ UNCHANGED zones
            /\ last' = [op |-> "update_zone", hand |-> None,
                        zone |-> zone.id, ret |-> FALSE, branch |-> None,
                        n |-> last.n, events |-> <<>>, fwd |-> <<>>,
                        signals |-> <<>>]
    /\ UNCHANGED <<session_stats, zm_active_picks, processed_events,
                   detectorVars, engineVars, trackerVars>>

\* -------------------------------------------------- IntersectionDetector
gesture_cooldown == 2 * TicksPerSecond

\* One cooldown per hand: an event of either type holds back both.
can_generate_gesture_event_AnyType(gestures, hand_id, gesture_type, current_time) ==
    /\ current_time - gestures[hand_id].pick >= gesture_cooldown
    /\ current_time - gestures[hand_id].drop >= gesture_cooldown

\* IntersectionDetector._can_generate_gesture_event: a hand that is not in
\* last_gesture_events, or has no time for the gesture type, reads as 0.0
can_generate_gesture_event(gestures, hand_id, gesture_type, current_time) ==
    current_time - gestures[hand_id][gesture_type] >= gesture_cooldown

\* "hand_id in self.hands_inside", for the list hands_inside
InList(list, hand_id) == \E k \in DOMAIN list : list[k] = hand_id

\* list.remove(hand_id): the first occurrence is taken out
list_remove(list, hand_id) ==
    LET i == CHOOSE k \in DOMAIN list :
                 /\ list[k] = hand_id
                 /\ \A j \in 1..(k - 1) : list[j] # hand_id
    IN SubSeq(list, 1, i - 1) \o SubSeq(list, i + 1, Len(list))

\* An add_hand without the membership test.
add_hand_Unguarded(zone, hand_id) ==
    [zone EXCEPT !.hands_inside = Append(@, hand_id),
                 !.interaction_count = @ + 1]

\* Zone.add_hand
add_hand(zone, hand_id) ==
    IF InList(zone.hands_inside, hand_id) THEN zone
    ELSE [zone EXCEPT !.hands_inside = Append(@, hand_id),
                      !.interaction_count = @ + 1]

\* Zone.remove_hand
remove_hand(zone, hand_id) ==
    IF InList(zone.hands_inside, hand_id)
    THEN [zone EXCEPT !.hands_inside = list_remove(@, hand_id)]
    ELSE zone

\* the state detect_intersections works on: the trackers, the zone
\* objects, the cooldown times and the results being assembled
DetectorState ==
    [states |-> hand_zone_states, zones |-> zones,
     gestures |-> last_gesture_events, events |-> <<>>,
     intersections |-> [z \in DOMAIN active_intersections |-> {}]]

\* the body of "for zone in zones" of detect_intersections for hand
\* hand_id and the zone at position i
DetectHandZone(D, hand_id, i, confidence, gesture, current_time) ==
    LET zone == D.zones[i]
        state_key == <<hand_id, zone.id>>
        st0 == IF D.states[state_key].last_event_time = NoState.last_event_time
               THEN HandZoneState
               ELSE D.states[state_key]
        r == update_confidence(st0, confidence, current_time)
        state == r.state
        state_changed == r.ret
        fire == state_changed
                \/ (state.is_inside /\ gesture \in {"pinch", "closed", "open"})
        event == [type |-> IF state.is_inside THEN "hand_enter_zone"
                           ELSE "hand_exit_zone",
                  hand_id |-> hand_id, zone_id |-> zone.id]
        pick == /\ fire /\ ~state_changed
                /\ gesture \in {"pinch", "closed"}
                /\ can_generate_gesture_event(D.gestures, hand_id, "pick",
                                              current_time)
        drop == /\ fire /\ ~state_changed
                /\ gesture = "open"
                /\ can_generate_gesture_event(D.gestures, hand_id, "drop",
                                              current_time)
    IN [states |-> [D.states EXCEPT ![state_key] = state],
        zones |-> IF ~fire THEN D.zones
                  ELSE [D.zones EXCEPT ![i] =
                           IF state.is_inside THEN add_hand(zone, hand_id)
                           ELSE remove_hand(zone, hand_id)],
        gestures |-> IF pick
                     THEN [D.gestures EXCEPT ![hand_id].pick = current_time]
                     ELSE IF drop
                     THEN [D.gestures EXCEPT ![hand_id].drop = current_time]
                     ELSE D.gestures,
        events |-> D.events
                   \o (IF fire THEN <<event>> ELSE <<>>)
                   \o (IF pick
                       THEN <<[event EXCEPT !.type = "pick_gesture_detected"]>>
                       ELSE <<>>)
                   \o (IF drop
                       THEN <<[event EXCEPT !.type = "drop_gesture_detected"]>>
                       ELSE <<>>),
        intersections |-> IF state.is_inside
                          THEN [D.intersections EXCEPT ![zone.id] =
                                   @ \cup {hand_id}]
                          ELSE D.intersections]

RECURSIVE DetectZones(_, _, _, _)
\* "for zone in zones" for one hand, from position i on
DetectZones(D, hand, i, current_time) ==
    IF i > Len(D.zones) THEN D
    ELSE DetectZones(
             DetectHandZone(D, hand.hand_id, i,
                            hand.confidence[D.zones[i].id], hand.gesture,
                            current_time),
             hand, i + 1, current_time)

RECURSIVE DetectHands(_, _, _)
\* "for hand_idx, landmarks in enumerate(landmarks_list)"
DetectHands(D, hands, current_time) ==
    IF hands = <<>> THEN D
    ELSE DetectHands(DetectZones(D, Head(hands), 1, current_time),
                     Tail(hands), current_time)

\* ZoneManager.process_frame_detections(detection_info): the detector runs
\* over the hands of the frame and the events it assembles are routed.
\* hands lists, for each hand of the frame, its id, the label of the
\* gesture classifier and its intersection confidence with each zone.
process_frame_detections(hands) ==
    LET t == now + FrameTicks IN
    /\ last.n < MaxFrames
    /\ now' = t
    /\ IF zones = <<>> \/ hands = <<>>
       THEN /\ UNCHANGED <<routerVars, detectorVars, engineVars>>
            /\ last' = [op |-> "process_frame_detections", hand |-> None,
                        zone |-> None, ret |-> TRUE, branch |-> None,
                        n |-> last.n + 1, events |-> <<>>, fwd |-> <<>>]
       ELSE \E D \in {DetectHands(DetectorState, hands, t)} :
            \E R \in RouteBatch(D.zones, {RouterState}, D.events, t) :
              /\ CountersWithin(R.processes)
              /\ zones' = D.zones
              /\ hand_zone_states' = D.states
              /\ last_gesture_events' = D.gestures
              /\ active_intersections' = D.intersections
              /\ session_stats' = R.session_stats
              /\ zm_active_picks' = R.active_picks
              /\ processed_events' = R.processed_events
              /\ processes' = R.processes
              /\ pm_active_picks' = R.pm_active_picks
              /\ config_file' = SavedAfter(R)
              /\ UNCHANGED <<process_counter, issued, host>>
              /\ last' = [op |-> "process_frame_detections", hand |-> None,
                          zone |-> None, ret |-> TRUE, branch |-> None,
                          n |-> last.n + 1, events |-> D.events,
                          fwd |-> R.fwd]
    /\ UNCHANGED <<hzs, transition_at>>

\* ----------------------------------------------------- specifications
\* both threads of the host outside the zone manager
HostIdle ==
    [camera |-> "idle", gui |-> "idle", frame |-> <<>>, events |-> <<>>,
     zone |-> None]

Init ==
    /\ processes = <<>>
    /\ process_counter = 1
    /\ pm_active_picks = [h \in Hands |-> NoPick]
    /\ config_file = NoFile
    /\ issued = {}
    /\ host = HostIdle
    /\ zones = <<>>
    /\ session_stats = [total_picks |-> 0, total_drops |-> 0,
                        zones_created |-> 0, zones_deleted |-> 0]
    /\ zm_active_picks = [h \in Hands |-> None]
    /\ processed_events = [keys |-> {}, others |-> 0]
    /\ hand_zone_states =
           [key \in Hands \X (ZoneIds \cup NamedZoneIds) |-> NoState]
    /\ active_intersections = [z \in ZoneIds \cup NamedZoneIds |-> {}]
    /\ last_gesture_events = [h \in Hands |-> [pick |-> 0, drop |-> 0]]
    /\ hzs = HandZoneState
    /\ now = EpochStart
    /\ transition_at = -1
    /\ last = [op |-> "init", hand |-> None, zone |-> None, ret |-> FALSE,
               branch |-> None, n |-> 0, events |-> <<>>, fwd |-> <<>>]

NextEngine ==
    \/ create_process
    \/ \E n \in 1..MaxProcesses, pz \in PickZoneIds, dz \in DropZoneIds :
           associate_zones(ProcessId(n), pz, dz)
    \/ \E h \in Hands, z \in ZoneIds : handle_pick_event(h, z)
    \/ \E h \in Hands, z \in ZoneIds : handle_drop_event(h, z)

SpecEngine == Init /\ [][NextEngine]_vars

NextTracker ==
    \E c \in ConfSamples, dt \in 0..2 : UpdateConfidence(c, dt)

SpecTracker == Init /\ [][NextTracker]_vars

\* the events the detector assembles: a hand and a configured zone
Events(zs) ==
    [type : EventTypes, hand_id : Hands, zone_id : ZoneIdsOf(zs)]

\* one event, or the same event twice in one batch
Batches(zs) == {<<e>> : e \in Events(zs)} \cup {<<e, e>> : e \in Events(zs)}

NextRouter ==
    \/ (processes = <<>> /\ create_process)
    \/ \E pid \in ProcessIdsOf(processes) :
       \E pz \in {z \in ZoneIdsOf(zones) : get_zone(zones, z).zone_type = "pick"},
          dz \in {z \in ZoneIdsOf(zones) : get_zone(zones, z).zone_type = "drop"} :
           associate_zones(pid, pz, dz)
    \/ \E zone_type \in {"pick", "drop"} :
           /\ session_stats.zones_created < MaxCreated
           /\ create_zone_direct(zone_type)
    \/ \E z \in ZoneIds : delete_zone(z)
    \/ \E events \in Batches(zones) :
           last.n < MaxBatches /\ process_interaction_events(events)
    \/ /\ last.n < MaxBatches
       /\ process_interaction_events_others(
              EventCap - ProcessedSize(processed_events))

SpecRouter == Init /\ [][NextRouter]_vars

\* the router alone: zones are created and batches arrive, no process is
\* defined and no zone is deleted
NextDedupe ==
    \/ \E zone_type \in {"pick", "drop"} :
           /\ session_stats.zones_created < MaxCreated
           /\ create_zone_direct(zone_type)
    \/ \E events \in Batches(zones) :
           last.n < MaxRepeats /\ process_interaction_events(events)
    \/ /\ last.n < MaxRepeats
       /\ process_interaction_events_others(
              EventCap - ProcessedSize(processed_events))

SpecDedupe == Init /\ [][NextDedupe]_vars

\* the frames the camera delivers: no hand, or the hand left_0 with a
\* gesture label and a confidence for each configured zone
Frames(zs) ==
    {<<>>} \cup
    {<<[hand_id |-> "left_0", gesture |-> g, confidence |-> c]>> :
         g \in Gestures, c \in [ZoneIdsOf(zs) -> FrameConf]}

NextPipeline ==
    \/ \E zone_type \in {"pick", "drop"} :
           /\ session_stats.zones_created < MaxCreated
           /\ create_zone_direct(zone_type)
    \/ \E z \in ZoneIds : delete_zone(z)
    \/ \E hands \in Frames(zones) : process_frame_detections(hands)

SpecPipeline == Init /\ [][NextPipeline]_vars

\* IntersectionDetector.detect_intersections(zones, detection_info) on its
\* own: the trackers, the zone objects and the cooldown times are updated
\* and the events of the frame are returned (kept in last.events)
detect_intersections(hands) ==
    LET t == now + FrameTicks IN
    /\ now' = t
    /\ IF zones = <<>> \/ hands = <<>>
       THEN /\ UNCHANGED <<zones, detectorVars>>
            /\ last' = [op |-> "detect_intersections", hand |-> None,
                        zone |-> None, ret |-> TRUE, branch |-> None,
                        n |-> last.n + 1, events |-> <<>>, fwd |-> <<>>,
                        frame |-> hands]
       ELSE \E D \in {DetectHands(DetectorState, hands, t)} :
              /\ zones' = D.zones
              /\ hand_zone_states' = D.states
              /\ last_gesture_events' = D.gestures
              /\ active_intersections' = D.intersections
              /\ last' = [op |-> "detect_intersections", hand |-> None,
                          zone |-> None, ret |-> TRUE, branch |-> None,
                          n |-> last.n + 1, events |-> D.events,
                          fwd |-> <<>>, frame |-> hands]
    /\ UNCHANGED <<session_stats, zm_active_picks, processed_events,
                   engineVars, hzs, transition_at>>

\* one hand of a frame, fully over every configured zone
HandOver(zs, hand_id, gesture) ==
    [hand_id |-> hand_id, gesture |-> gesture,
     confidence |-> [z \in ZoneIdsOf(zs) |-> 80]]

\* the frames of two hands held over the zones, each showing one of the
\* gesture labels, and the frame without a hand
SteadyFrames(zs) ==
    {<<>>}
    \cup {<<HandOver(zs, "left_0", g1), HandOver(zs, "right_1", g2)>> :
              g1 \in Gestures, g2 \in Gestures}

\* the detector alone, over one zone
NextCooldown ==
    \/ (zones = <<>> /\ create_zone_direct("pick"))
    \/ \E hands \in SteadyFrames(zones) :
           last.n < MaxDetections /\ detect_intersections(hands)

SpecCooldown == Init /\ [][NextCooldown]_vars

\* the zone collection alone: zones are created and deleted
NextZones ==
    \/ \E zone_type \in {"pick", "drop"} :
           /\ session_stats.zones_created < MaxRecreated
           /\ create_zone_direct(zone_type)
    \/ \E z \in ZoneIds : delete_zone(z)

SpecZones == Init /\ [][NextZones]_vars

\* the engine with deletion and restarts: a pick zone and then a drop
\* zone are created, processes are associated with the two, hands pick and
\* drop in them
NextLifecycle ==
    \/ (process_counter <= MaxIssued /\ create_process)
    \/ \E n \in 1..MaxIssued : delete_process(ProcessId(n))
    \/ \E pid \in ProcessIdsOf(processes) :
           associate_zones(pid, ZoneIdFor("pick", 0), ZoneIdFor("drop", 1))
    \/ \E h \in Hands : handle_pick_event(h, ZoneIdFor("pick", 0))
    \/ \E h \in Hands : handle_drop_event(h, ZoneIdFor("drop", 1))
    \/ (zones = <<>> /\ create_zone_direct("pick"))
    \/ (Len(zones) = 1 /\ create_zone_direct("drop"))
    \/ SaveProcesses
    \/ (last.n < MaxRestarts /\ ProcessManager_init)

SpecLifecycle == Init /\ [][NextLifecycle]_vars

\* the engine with its statistics: process n works between pick zone n-1
\* and drop zone n-1, the left hand picks and drops in any of them,
\* processes are deleted and created again, the statistics are read
NextStatistics ==
    \/ (process_counter <= MaxTallied /\ create_process)
    \/ \E n \in 1..MaxTallied : delete_process(ProcessId(n))
    \/ \E n \in 1..MaxTallied :
           /\ ProcessId(n) \in ProcessIdsOf(processes)
           /\ get_process(processes, ProcessId(n)).pick_zone_id = None
           /\ associate_zones(ProcessId(n), ZoneIdFor("pick", (n - 1) % MaxZones),
                              ZoneIdFor("drop", (n - 1) % MaxZones))
    \/ \E z \in PickZoneIds : handle_pick_event("left_0", z)
    \/ \E z \in DropZoneIds : handle_drop_event_upto("left_0", z, MaxTally)
    \/ GetStatistics

SpecStatistics == Init /\ [][NextStatistics]_vars

\* the frames of a hand that pinches over every configured zone
PinchFrames(zs) ==
    {<<>>,
     <<[hand_id |-> "left_0", gesture |-> "pinch",
        confidence |-> [z \in ZoneIdsOf(zs) |-> 80]]>>}

\* a zone object a caller passes to update_zone: the one of the list or a
\* new one with that id
ZoneObjects(zs, zone_id) ==
    {Zone(zone_id, IF zone_id \in PickZoneIds THEN "pick" ELSE "drop")}
    \cup {zs[i] : i \in {k \in DOMAIN zs : zs[k].id = zone_id}}

\* zones and processes are created, a hand pinches over the zones, and
\* zones and processes are deleted and updated under ids that exist and
\* ids that do not
NextIdentifiers ==
    \/ \E zone_type \in {"pick", "drop"} :
           /\ session_stats.zones_created < MaxCreated
           /\ create_zone_direct(zone_type)
    \/ \E z \in ZoneIds : delete_zone(z)
    \/ \E z \in ZoneIds : \E zone \in ZoneObjects(zones, z) : update_zone(zone)
    \/ \E hands \in PinchFrames(zones) : process_frame_detections(hands)
    \/ (process_counter <= MaxProcesses /\ create_process)
    \/ \E n \in 1..MaxProcesses : delete_process(ProcessId(n))

SpecIdentifiers == Init /\ [][NextIdentifiers]_vars

\* the corner points of a drawn rectangle, in pixels
Corners == {0, 10, 60, 100} \X {0, 10, 60, 100}
\* the widths and heights a caller passes to create_zone_direct, in
\* hundredths of the frame
Extents == {-20, 0, 30}
Stamps == {1, 2}

\* the zone collection with its geometry: zones are drawn with the mouse,
\* created directly and deleted
NextGeometry ==
    \/ \E zone_type \in {"pick", "drop"}, width \in Extents, height \in Extents :
           /\ session_stats.zones_created < MaxRecreated
           /\ create_zone_direct_sized(zone_type, width, height)
    \/ \E creation_mode \in {"pick", "drop"}, start_point \in Corners,
          end_point \in Corners, stamp \in Stamps :
           /\ session_stats.zones_created < MaxRecreated
           /\ handle_mouse_release(creation_mode, start_point, end_point,
                                   stamp)
    \/ \E i \in DOMAIN zones : delete_zone(zones[i].id)

SpecGeometry == Init /\ [][NextGeometry]_vars

\* rectangles of positive size on a small grid
Rectangles ==
    {Rectangle(x, y, width, height) :
         x \in 0..MaxCoordinate, y \in 0..MaxCoordinate,
         width \in 1..MaxSide, height \in 1..MaxSide}

NextRectangles ==
    \E self \in Rectangles, other \in Rectangles :
        IntersectsRectangle(self, other)

SpecRectangles == Init /\ [][NextRectangles]_vars

\* managers on a file that is damaged between runs: processes are
\* created, associated and deleted, the file is damaged, a new manager is
\* constructed on it
NextReload ==
    \/ (process_counter <= MaxIssued /\ create_process)
    \/ \E n \in 1..MaxIssued : delete_process(ProcessId(n))
    \/ \E pid \in ProcessIdsOf(processes) :
           associate_zones(pid, ZoneIdFor("pick", 0), ZoneIdFor("drop", 1))
    \/ \E readable \in BOOLEAN :
       \E malformed \in SUBSET (DOMAIN config_file.processes) :
           DamageFile(readable, malformed)
    \/ (last.n < MaxReloads /\ ProcessManager_init)

SpecReload == Init /\ [][NextReload]_vars

\* the number of places where two successive confidences differ
Switches(history) ==
    Cardinality({k \in 1..(Len(history) - 1) : history[k] # history[k + 1]})

\* frames of a left hand that is over every zone or away from every zone,
\* pinching or not, alone or (when it pinches over the zones) with a
\* right hand held open over every zone
VisitFrames(zs) ==
    {<<[hand_id |-> "left_0", gesture |-> g,
        confidence |-> [z \in ZoneIdsOf(zs) |-> c]]>> :
         g \in {"pinch", "unknown"}, c \in FrameConf}
    \cup {<<HandOver(zs, "left_0", "pinch"), HandOver(zs, "right_1", "open")>>}

\* the detector over one pick zone that hands enter, leave and enter again
NextVisits ==
    \/ (zones = <<>> /\ create_zone_direct("pick"))
    \/ \E hands \in VisitFrames(zones) :
           /\ last.n < MaxVisitFrames
           /\ \A i \in DOMAIN hands : \A z \in ZoneIdsOf(zones) :
                  Switches(Append(
                      hand_zone_states[<<hands[i].hand_id, z>>]
                          .confidence_history,
                      hands[i].confidence[z])) <= MaxSwitches
           /\ detect_intersections(hands)

SpecVisits == Init /\ [][NextVisits]_vars

\* one tracker fed more samples than its history holds, one per tick
NextHistory ==
    \E c \in ConfSamples :
        /\ Switches(Append(hzs.confidence_history, c)) <= MaxSwitches
        /\ UpdateConfidence_upto(c, 1, MaxFed, MaxFed)

SpecHistory == Init /\ [][NextHistory]_vars

\* the router alone with deletions and resets: zones are created and
\* deleted, batches arrive, the zones are cleared, the statistics reset
NextAccounting ==
    \/ \E zone_type \in {"pick", "drop"} :
           /\ session_stats.zones_created < MaxCreated
           /\ create_zone_direct(zone_type)
    \/ \E z \in ZoneIdsOf(zones) : delete_zone(z)
    \/ \E events \in Batches(zones) :
           last.n < MaxAccounted /\ process_interaction_events(events)
    \/ (zones # <<>> /\ clear_all_zones)
    \/ (session_stats.total_picks > 0 /\ reset_session_statistics)

SpecAccounting == Init /\ [][NextAccounting]_vars

\* the engine with deletion of one process and of all: processes are
\* created, associated with a pick and a drop zone, deleted and cleared,
\* hands pick and drop in the zones
NextRegistry ==
    \/ (process_counter <= MaxProcesses /\ create_process)
    \/ \E n \in 1..MaxProcesses : delete_process(ProcessId(n))
    \/ \E n \in 1..MaxProcesses, pz \in PickZoneIds, dz \in DropZoneIds :
           associate_zones(ProcessId(n), pz, dz)
    \/ \E h \in Hands, z \in PickZoneIds : handle_pick_event(h, z)
    \/ \E h \in Hands, z \in DropZoneIds : handle_drop_event(h, z)
    \/ (processes # <<>> /\ clear_all_processes)

SpecRegistry == Init /\ [][NextRegistry]_vars

\* frames of the left hand over every zone or away from every zone
NamedFrames(zs) ==
    {<<[hand_id |-> "left_0", gesture |-> "unknown",
        confidence |-> [z \in ZoneIdsOf(zs) |-> c]]>> : c \in FrameConf}

\* the detector over zones with ids of their own: the zones are added,
\* frames arrive, the trackers of a zone are reset
NextNamed ==
    \/ \E z \in NamedZoneIds : z \notin ZoneIdsOf(zones) /\ add_zone(z, "pick")
    \/ \E hands \in NamedFrames(zones) :
           last.n < MaxNamedFrames /\ detect_intersections(hands)
    \/ \E z \in ZoneIdsOf(zones) : IntersectionDetector_reset_zone_states(z)

SpecNamed == Init /\ [][NextNamed]_vars

\* managers on a file whose counter is rewritten between runs
NextCounter ==
    \/ (process_counter <= MaxIssued /\ create_process)
    \/ \E n \in 1..MaxIssued : delete_process(ProcessId(n))
    \/ \E pid \in ProcessIdsOf(processes) :
           associate_zones(pid, ZoneIdFor("pick", 0), ZoneIdFor("drop", 1))
    \/ \E has_counter \in BOOLEAN, counter \in 1..MaxIssued :
           RewriteCounter(has_counter, counter)
    \/ (last.n < MaxReloads /\ ProcessManager_init)

SpecCounter == Init /\ [][NextCounter]_vars

\* confidences below, on the edges of and above the band [0.3, 0.6]
GuardSamples == {20, 30, 60, 80}

\* number of samples of the history inside the band
BandCount(history) ==
    Cardinality({i \in DOMAIN history : history[i] >= 30 /\ history[i] <= 60})

\* the tracker fed with samples around the two thresholds; the clock
\* stands still or, after a reported transition, advances by the minimum
\* interval
NextGuards ==
    \E c \in GuardSamples, dt \in {0, min_event_interval} :
        /\ dt > 0 => last.ret
        /\ (c >= 30 /\ c <= 60)
           => BandCount(hzs.confidence_history) < MaxBandSamples
        /\ UpdateConfidence(c, dt)

SpecGuards == Init /\ [][NextGuards]_vars

\* IntersectionDetector.detect_intersections on one more frame with no
\* hand_landmarks, in a run of such frames that does not end: the detector
\* returns its empty results before it reads the clock or touches its
\* state.  The frames are told apart by their parity.
IdleFrame ==
    /\ zones # <<>>
    /\ last' = [op |-> "idle_frame", hand |-> None, zone |-> None,
                ret |-> TRUE,
                branch |-> IF last.op = "idle_frame" /\ last.branch = "even"
                           THEN "odd" ELSE "even",
                n |-> last.n, events |-> <<>>, fwd |-> <<>>,
                frame |-> <<>>]
    /\ UNCHANGED <<engineVars, trackerVars, routerVars, detectorVars>>

\* frames with the left hand over every zone, with the right hand away
\* from every zone, and with no hand
VanishFrames ==
    {<<>>,
     <<[hand_id |-> "left_0", gesture |-> "unknown",
        confidence |-> [z \in ZoneIds |-> 80]]>>,
     <<[hand_id |-> "right_1", gesture |-> "unknown",
        confidence |-> [z \in ZoneIds |-> 20]]>>}

\* a pick zone, some frames with and without hands, and then frames
\* without hands for as long as the camera runs
NextVanish ==
    \/ (zones = <<>> /\ create_zone_direct("pick"))
    \/ \E hands \in VanishFrames :
           last.n < MaxVanishFrames /\ detect_intersections(hands)
    \/ IdleFrame

\* the camera thread delivers frame after frame
SpecVanish == Init /\ [][NextVanish]_vars /\ WF_vars(IdleFrame)

\* one event of a hand that enters or leaves a configured zone
CrossingBatches(zs) ==
    {<<e>> : e \in [type : {"hand_enter_zone", "hand_exit_zone"},
                    hand_id : Hands, zone_id : ZoneIdsOf(zs)]}

\* the router under hands that enter and leave zones: zones are created,
\* events of other pairs fill the processed events, the zones are cleared
\* and the session statistics reset
NextCrossings ==
    \/ \E zone_type \in {"pick", "drop"} :
           /\ session_stats.zones_created < MaxCreated
           /\ create_zone_direct(zone_type)
    \/ \E events \in CrossingBatches(zones) :
           last.n < MaxCrossings /\ process_interaction_events(events)
    \/ /\ last.n < MaxCrossings
       /\ process_interaction_events_others(
              EventCap - ProcessedSize(processed_events))
    \/ (zones # <<>> /\ clear_all_zones)
    \/ (processed_events.keys # {} /\ reset_session_statistics)

SpecCrossings == Init /\ [][NextCrossings]_vars

\* pick events of the hands in the configured zones
PickEvents(zs) ==
    [type : {"hand_enter_zone", "pick_gesture_detected"}, hand_id : Hands,
     zone_id : ZoneIdsOf(zs)]

\* one pick event, or two pick events of one hand in different zones
PickBatches(zs) ==
    {<<e>> : e \in PickEvents(zs)}
    \cup {b \in PickEvents(zs) \X PickEvents(zs) :
              b[1].hand_id = b[2].hand_id /\ b[1].zone_id # b[2].zone_id}

\* the router and the engine under pick events only: pick zones are
\* created, processes are associated with them, hands pick again and
\* again
NextPicks ==
    \/ create_process
    \/ \E pid \in ProcessIdsOf(processes), pz \in PickZoneIds :
           associate_zones(pid, pz, ZoneIdFor("drop", 0))
    \/ /\ session_stats.zones_created < MaxCreated
       /\ create_zone_direct("pick")
    \/ \E events \in PickBatches(zones) :
           last.n < MaxPickBatches /\ process_interaction_events(events)

SpecPicks == Init /\ [][NextPicks]_vars

\* ------------------------------------------------------------- the host
\* CameraThread.run, in the camera thread: the call of
\* zone_manager.process_frame_detections(detection_info) is entered
CameraThread_run_call(hands) ==
    /\ host.camera = "idle"
    /\ host' = [host EXCEPT !.camera = "process_frame_detections",
                            !.frame = hands, !.events = <<>>]
    /\ last' = [op |-> "CameraThread_run_call", hand |-> None,
                zone |-> None, ret |-> TRUE, branch |-> None,
                n |-> last.n + 1, events |-> <<>>, fwd |-> <<>>]
    /\ UNCHANGED <<processes, process_counter, pm_active_picks, storeVars,
                   trackerVars, routerVars, detectorVars>>

\* the camera thread inside process_frame_detections: get_active_zones and
\* detect_intersections run on the zones as they are now; with no zone,
\* or no hand in the frame, the call is left with no event
CameraThread_run_detect ==
    LET t == now + FrameTicks IN
    /\ host.camera = "process_frame_detections"
    /\ now' = t
    /\ IF zones = <<>> \/ host.frame = <<>>
       THEN /\ host' = [host EXCEPT !.camera = "idle", !.frame = <<>>]
            /\ UNCHANGED <<zones, detectorVars>>
            /\ last' = [op |-> "CameraThread_run_detect", hand |-> None,
                        zone |-> None, ret |-> TRUE, branch |-> None,
                        n |-> last.n, events |-> <<>>, fwd |-> <<>>]
       ELSE \E D \in {DetectHands(DetectorState, host.frame, t)} :
              /\ zones' = D.zones
              /\ hand_zone_states' = D.states
              /\ last_gesture_events' = D.gestures
              /\ active_intersections' = D.intersections
              /\ host' = [host EXCEPT !.camera = "process_interaction_events",
                                      !.frame = <<>>, !.events = D.events]
              /\ last' = [op |-> "CameraThread_run_detect", hand |-> None,
                          zone |-> None, ret |-> TRUE, branch |-> None,
                          n |-> last.n, events |-> D.events, fwd |-> <<>>]
    /\ UNCHANGED <<session_stats, zm_active_picks, processed_events,
                   processes, process_counter, pm_active_picks, storeVars,
                   hzs, transition_at>>

\* the camera thread inside process_frame_detections: the events of the
\* frame are routed and the call returns
CameraThread_run_route ==
    /\ host.camera = "process_interaction_events"
    /\ \E R \in RouteBatch(zones, {RouterState}, host.events, now) :
         /\ CountersWithin(R.processes)
         /\ session_stats' = R.session_stats
         /\ zm_active_picks' = R.active_picks
         /\ processed_events' = R.processed_events
         /\ processes' = R.processes
         /\ pm_active_picks' = R.pm_active_picks
         /\ config_file' = SavedAfter(R)
         /\ last' = [op |-> "CameraThread_run_route", hand |-> None,
                     zone |-> None, ret |-> TRUE, branch |-> None,
                     n |-> last.n, events |-> host.events, fwd |-> R.fwd]
    /\ host' = [host EXCEPT !.camera = "idle", !.events = <<>>]
    /\ UNCHANGED <<zones, process_counter, issued, trackerVars,
                   detectorVars>>

\* ZoneConfig.clear_zones, reset_zone_states() and the two clear() calls
\* of ZoneManager.clear_all_zones
clear_all_zones_state ==
    /\ zones' = <<>>
    /\ hand_zone_states' = [key \in DOMAIN hand_zone_states |-> NoState]
    /\ active_intersections' = [z \in DOMAIN active_intersections |-> {}]
    /\ zm_active_picks' = [h \in Hands |-> None]
    /\ processed_events' = [keys |-> {}, others |-> 0]
    /\ UNCHANGED <<session_stats, last_gesture_events>>

\* NextSightApplication.delete_zone / clear_all_zones, slots run by the
\* GUI thread: after the confirmation dialog the zone manager's method is
\* entered (zone_id names the zone to delete, None clears them all)
Application_call(method, zone_id) ==
    /\ host.gui = "idle"
    /\ zones # <<>>
    /\ host' = [host EXCEPT !.gui = method, !.zone = zone_id]
    /\ last' = [op |-> "Application_call", hand |-> None,
                zone |-> zone_id, ret |-> TRUE, branch |-> method,
                n |-> last.n, events |-> <<>>, fwd |-> <<>>]
    /\ UNCHANGED <<processes, process_counter, pm_active_picks, storeVars,
                   trackerVars, routerVars, detectorVars>>

\* the GUI thread inside ZoneManager.delete_zone or clear_all_zones: the
\* method does its work and returns
Application_return ==
    /\ host.gui # "idle"
    /\ IF host.gui = "clear_all_zones"
       THEN clear_all_zones_state
       ELSE IF host.zone \in ZoneIdsOf(zones)
       THEN /\ zones' = remove_zone(zones, host.zone)
            /\ session_stats' =
                   [session_stats EXCEPT !.zones_deleted = @ + 1]
            /\ hand_zone_states' =
                   reset_zone_states(hand_zone_states, host.zone)
            /\ zm_active_picks' =
                   [h \in Hands |-> IF zm_active_picks[h] = host.zone
                                    THEN None ELSE zm_active_picks[h]]
            /\ UNCHANGED <<processed_events, active_intersections,
                           last_gesture_events>>
       ELSE UNCHANGED <<routerVars, detectorVars>>
    /\ host' = [host EXCEPT !.gui = "idle", !.zone = None]
    /\ last' = [op |-> "Application_return", hand |-> None,
                zone |-> host.zone, ret |-> TRUE, branch |-> host.gui,
                n |-> last.n, events |-> <<>>, fwd |-> <<>>]
    /\ UNCHANGED <<processes, process_counter, pm_active_picks, storeVars,
                   trackerVars>>

\* the frames the camera thread delivers to the zone manager, one hand
\* with a pick gesture over every zone or away from them
HostFrames ==
    {<<[hand_id |-> "left_0", gesture |-> "pinch",
        confidence |-> [z \in ZoneIds |-> c]]>> : c \in FrameConf}

\* the two threads of the host on one zone manager: the GUI thread
\* creates zones, deletes one or clears them, the camera thread runs the
\* frames through it
NextHost ==
    \/ \E zone_type \in {"pick", "drop"} :
           /\ host.gui = "idle"
           /\ session_stats.zones_created < MaxCreated
           /\ create_zone_direct(zone_type)
    \/ \E z \in ZoneIdsOf(zones) : Application_call("delete_zone", z)
    \/ Application_call("clear_all_zones", None)
    \/ Application_return
    \/ \E hands \in HostFrames :
           last.n < MaxHostFrames /\ CameraThread_run_call(hands)
    \/ CameraThread_run_detect
    \/ CameraThread_run_route

SpecHost == Init /\ [][NextHost]_vars

\* ============================================================== claims
\* what a handle_drop_event(h, z) step looks like from outside
IsDropCall(h, z) ==
    /\ last'.op = "handle_drop_event" /\ last'.hand = h /\ last'.zone = z

CompletedOf(procs, pid) == get_process(procs, pid).completed_count
ErrorOf(procs, pid) == get_process(procs, pid).error_count

\* the processes other than pid keep both counters
OthersKeepCounters(pid) ==
    \A q \in ProcessIdsOf(processes) \ {pid} :
        /\ CompletedOf(processes', q) = CompletedOf(processes, q)
        /\ ErrorOf(processes', q) = ErrorOf(processes, q)

OtherHandsKeepPicks(h) ==
    \A g \in Hands \ {h} : pm_active_picks'[g] = pm_active_picks[g]

\* C1: a drop by a hand whose active pick was made in process P, into the
\* zone that is P's drop zone, returns True, adds exactly 1 to
\* P.completed_count, removes the hand's pick and touches no other counter
\* and no other hand's pick.
C1_DropInOwnDropZone ==
    [][\A h \in Hands, z \in ZoneIds :
         LET P == pm_active_picks[h].process_id IN
         (/\ IsDropCall(h, z)
          /\ pm_active_picks[h] # NoPick
          /\ get_process(processes, P).drop_zone_id = z)
         => /\ last'.ret = TRUE
            /\ CompletedOf(processes', P) = CompletedOf(processes, P) + 1
            /\ ErrorOf(processes', P) = ErrorOf(processes, P)
            /\ pm_active_picks'[h] = NoPick
            /\ OthersKeepCounters(P)
            /\ OtherHandsKeepPicks(h)]_vars

\* C2 as stated: a drop by a hand whose pick was made in P, into a zone that
\* is the drop zone of a different process Q, returns False, adds exactly 1
\* to P.error_count, leaves Q's counters and every completed_count alone and
\* removes the hand's pick.
C2_AsStated ==
    [][\A h \in Hands, z \in ZoneIds :
         LET P == pm_active_picks[h].process_id IN
         (/\ IsDropCall(h, z)
          /\ pm_active_picks[h] # NoPick
          /\ \E Q \in ProcessIdsOf(processes) \ {P} :
                 get_process(processes, Q).drop_zone_id = z)
         => /\ last'.ret = FALSE
            /\ ErrorOf(processes', P) = ErrorOf(processes, P) + 1
            /\ CompletedOf(processes', P) = CompletedOf(processes, P)
            /\ pm_active_picks'[h] = NoPick
            /\ OthersKeepCounters(P)]_vars

\* C2 amended: the same, for a zone that is the drop zone of a different
\* process Q and not also the drop zone of the picked-from process P.
C2_WrongProcessDrop ==
    [][\A h \in Hands, z \in ZoneIds :
         LET P == pm_active_picks[h].process_id IN
         (/\ IsDropCall(h, z)
          /\ pm_active_picks[h] # NoPick
          /\ get_process(processes, P).drop_zone_id # z
          /\ \E Q \in ProcessIdsOf(processes) \ {P} :
                 get_process(processes, Q).drop_zone_id = z)
         => /\ last'.ret = FALSE
            /\ ErrorOf(processes', P) = ErrorOf(processes, P) + 1
            /\ CompletedOf(processes', P) = CompletedOf(processes, P)
            /\ pm_active_picks'[h] = NoPick
            /\ OthersKeepCounters(P)
            /\ OtherHandsKeepPicks(h)]_vars

\* a wrong-process drop has just charged an error and cleared the pick
C2_Witness ==
    /\ last.op = "handle_drop_event"
    /\ last.branch = "wrong_process"
    /\ last.ret = FALSE
    /\ pm_active_picks[last.hand] = NoPick
    /\ \E i \in DOMAIN processes :
           /\ processes[i].error_count = 1
           /\ processes[i].drop_zone_id # last.zone

\* C3: while hand_A holds a pick in P, a drop by a hand_B without a pick
\* returns False, changes no counter and keeps hand_A's pick; the drop by
\* hand_A into P's drop zone that follows returns True and adds exactly 1 to
\* P.completed_count.
C3_HandConsistency ==
    [][\A hA \in Hands : \A hB \in Hands \ {hA}, z \in ZoneIds :
         LET P == pm_active_picks[hA].process_id IN
         /\ (/\ IsDropCall(hB, z)
             /\ pm_active_picks[hA] # NoPick
             /\ pm_active_picks[hB] = NoPick)
            => /\ last'.ret = FALSE
               /\ \A q \in ProcessIdsOf(processes) :
                      /\ CompletedOf(processes', q) = CompletedOf(processes, q)
                      /\ ErrorOf(processes', q) = ErrorOf(processes, q)
               /\ pm_active_picks'[hA] = pm_active_picks[hA]
         /\ (/\ last.op = "handle_drop_event" /\ last.hand = hB
             /\ last.branch = "no_active_pick"
             /\ IsDropCall(hA, z)
             /\ pm_active_picks[hA] # NoPick
             /\ get_process(processes, P).drop_zone_id = z)
            => /\ last'.ret = TRUE
               /\ CompletedOf(processes', P) = CompletedOf(processes, P) + 1]_vars

IsUpdateCall == last'.op = "update_confidence"

\* number of samples at the end of history that satisfy the test
TrailingRun(history, test(_)) ==
    CHOOSE k \in 0..Len(history) :
        /\ \A i \in (Len(history) - k + 1)..Len(history) : test(history[i])
        /\ k = Len(history) \/ ~test(history[Len(history) - k])

IsHigh(c) == c > 60
IsLow(c) == c < 30

\* the minimum interval has elapsed at reading t since the latest
\* transition the tracker reported (or it never reported one)
IntervalElapsedAt(t) ==
    transition_at = -1 \/ t - transition_at >= 1 * TicksPerSecond

\* C9: for a tracker that is OUTSIDE with the minimum interval elapsed, a
\* run of consecutive samples above 0.6 reports no transition on its first
\* four samples and reports one on the fifth, leaving the tracker INSIDE; a
\* further high sample fed to an INSIDE tracker reports nothing; and a low
\* sample that does not complete five lows in a row leaves it INSIDE.
C9_DebounceHysteresis ==
    [][IsUpdateCall =>
         LET highs == TrailingRun(hzs'.confidence_history, IsHigh)
             lows == TrailingRun(hzs'.confidence_history, IsLow)
         IN /\ (~hzs.is_inside /\ highs < 5)
               => (last'.ret = FALSE /\ ~hzs'.is_inside)
            /\ (~hzs.is_inside /\ highs = 5 /\ IntervalElapsedAt(now'))
               => (last'.ret = TRUE /\ hzs'.is_inside)
            /\ (hzs.is_inside /\ highs >= 1)
               => (last'.ret = FALSE /\ hzs'.is_inside)
            /\ (hzs.is_inside /\ lows >= 1 /\ lows < 5)
               => (last'.ret = FALSE /\ hzs'.is_inside)]_vars

\* five highs entered the zone once, a sixth high and then a single low
\* followed, and the tracker is still INSIDE
C9_Witness ==
    /\ last.op = "update_confidence"
    /\ hzs.confidence_history = <<80, 80, 80, 80, 80, 80, 20>>
    /\ hzs.is_inside
    /\ last.ret = FALSE
    /\ hzs.entry_time = transition_at

\* C10: two calls that report a transition are at least 1.0 s apart, and a
\* call made less than 1.0 s after the latest reported transition reports
\* none and leaves is_inside as it was, whatever the samples.
C10_MinimumInterval ==
    [][IsUpdateCall =>
         /\ (last'.ret = TRUE /\ transition_at # -1)
            => now' - transition_at >= 1 * TicksPerSecond
         /\ (transition_at # -1 /\ now' - transition_at < 1 * TicksPerSecond)
            => (last'.ret = FALSE /\ hzs'.is_inside = hzs.is_inside)]_vars

\* the tracker entered, then received five lows in a row less than 1.0 s
\* after entering: the exit pattern qualifies and was suppressed
C10_Witness ==
    /\ last.op = "update_confidence"
    /\ last.ret = FALSE
    /\ hzs.is_inside
    /\ recent_low(hzs.confidence_history) = 5
    /\ transition_at # -1
    /\ now - transition_at < 1 * TicksPerSecond

\* the tracker entered and later left: two transitions were reported
C10_TwoTransitions ==
    /\ last.op = "update_confidence"
    /\ last.ret = TRUE
    /\ ~hzs.is_inside
    /\ transition_at = now

\* ------------------------------------------------- claims on the router
IsBatchCall == last'.op = "process_interaction_events"

\* the engine's pick record of hand h names a zone that has been deleted
\* from the configuration
StalePick(h) ==
    /\ pm_active_picks[h] # NoPick
    /\ pm_active_picks[h].zone_id \notin ZoneIdsOf(zones)

\* a drop by hand h reached the engine and the engine resolved it
EngineResolvedDropBy(fwd, h) ==
    \E i \in DOMAIN fwd :
        /\ fwd[i].kind = "drop" /\ fwd[i].hand = h
        /\ fwd[i].branch \in {"completed", "wrong_process"}

\* C5: when delete_zone(z) succeeds, the router's active pick of every
\* hand that picked in z is removed, and afterwards no drop by such a hand
\* is resolved by the engine (completed_count or error_count incremented)
\* on the pick it recorded in z.
C5_ZoneDeletionCascade ==
    [][/\ (last'.op = "delete_zone" /\ last'.ret)
          => \A h \in Hands : zm_active_picks[h] = last'.zone
                              => zm_active_picks'[h] = None
       /\ IsBatchCall
          => \A h \in Hands : StalePick(h)
                              => ~EngineResolvedDropBy(last'.fwd, h)]_vars

\* C6: after delete_zone(z) has returned True no tracker is keyed on z, z
\* has no active-intersection entry, no router active pick names z and no
\* dedupe key of z is in the processed-event set.
C6_DeletePurgesZoneState ==
    [][(last'.op = "delete_zone" /\ last'.ret)
       => LET z == last'.zone IN
          /\ \A h \in Hands : hand_zone_states'[<<h, z>>] = NoState
          /\ active_intersections'[z] = {}
          /\ \A h \in Hands : zm_active_picks'[h] # z
          /\ \A key \in processed_events'.keys : key[3] # z]_vars

\* the event asks the router to count a pick
IsPickEvent(event, zs) ==
    \/ event.type = "pick_gesture_detected"
    \/ /\ event.type = "hand_enter_zone"
       /\ event.zone_id \in ZoneIdsOf(zs)
       /\ get_zone(zs, event.zone_id).zone_type = "pick"

\* the event asks the router to count a drop
IsDropEvent(event, zs) ==
    \/ event.type = "drop_gesture_detected"
    \/ /\ event.type = "hand_enter_zone"
       /\ event.zone_id \in ZoneIdsOf(zs)
       /\ get_zone(zs, event.zone_id).zone_type = "drop"

DedupeKey(event) ==
    IF event.type = "pick_gesture_detected" THEN pick_key(event)
    ELSE IF event.type = "drop_gesture_detected" THEN drop_key(event)
    ELSE enter_key(event)

ForwardedPicks(fwd) == Cardinality({i \in DOMAIN fwd : fwd[i].kind = "pick"})

\* C7: a batch holding the same pick event twice adds at most 1 to
\* total_picks and forwards at most one pick, exactly 1 when the event had
\* not been counted before; and the same pick event submitted again in the
\* next batch adds nothing and forwards nothing.
C7_DuplicateSuppression ==
    [][(IsBatchCall /\ IsPickEvent(last'.events[1], zones))
       => LET picks == session_stats'.total_picks - session_stats.total_picks
              sent == ForwardedPicks(last'.fwd)
          IN /\ Len(last'.events) = 2
                => /\ picks <= 1 /\ sent <= 1
                   /\ DedupeKey(last'.events[1]) \notin processed_events.keys
                      => (picks = 1 /\ sent = 1)
             /\ (/\ last.op = "process_interaction_events"
                 /\ last.events = <<last'.events[1]>>
                 /\ Len(last'.events) = 1)
                => (picks = 0 /\ sent = 0)]_vars

\* C8: a drop event from a hand with no router active pick changes no
\* counter, forwards nothing and leaves every active pick as it was; a
\* drop event from a hand with an active pick adds 1 to total_drops,
\* clears that hand's pick only and is forwarded to the engine.
C8_RouterHandConsistency ==
    [][(/\ IsBatchCall /\ Len(last'.events) = 1
        /\ IsDropEvent(last'.events[1], zones))
       => LET event == last'.events[1]
              h == event.hand_id
          IN IF zm_active_picks[h] = None
             THEN /\ session_stats' = session_stats
                  /\ last'.fwd = <<>>
                  /\ zm_active_picks' = zm_active_picks
                  /\ processes' = processes
                  /\ pm_active_picks' = pm_active_picks
             ELSE /\ session_stats'.total_drops =
                         session_stats.total_drops + 1
                  /\ session_stats'.total_picks = session_stats.total_picks
                  /\ zm_active_picks' = [zm_active_picks EXCEPT ![h] = None]
                  /\ Len(last'.fwd) = 1
                  /\ last'.fwd[1].kind = "drop"
                  /\ last'.fwd[1].hand = h
                  /\ last'.fwd[1].zone = event.zone_id]_vars

\* ----------------------------------------------- claims on the detector
\* positions in the events of a frame of the gesture events of one type
\* ("pick" or "drop") for hand h
GestureEventsOf(events, h, gesture_type) ==
    {i \in DOMAIN events :
        /\ events[i].type = gesture_type \o "_gesture_detected"
        /\ events[i].hand_id = h}

\* the labels that ask for a gesture event of the type
LabelsOf(gesture_type) ==
    IF gesture_type = "pick" THEN {"pinch", "closed"} ELSE {"open"}

\* hand h of the frame shows a label of the type while its tracker for
\* some zone was INSIDE before the frame and stays INSIDE
HeldInside(hands, h, gesture_type) ==
    \E i \in DOMAIN hands :
        /\ hands[i].hand_id = h
        /\ hands[i].gesture \in LabelsOf(gesture_type)
        /\ \E k \in DOMAIN zones :
               /\ hand_zone_states[<<h, zones[k].id>>].is_inside
               /\ hand_zone_states'[<<h, zones[k].id>>].is_inside

\* C11: a frame emits at most one pick and one drop gesture event per
\* hand; an emitted one comes at least 2.0 s after the previous one of the
\* same hand and type, whose time the detector keeps per hand and type
\* and changes on emission only; and a hand held inside a zone with the
\* gesture, at least 2.0 s after its own last event of that type, emits
\* the event whatever the other type's and the other hands' times are.
C11_GestureCooldown ==
    [][last'.op = "detect_intersections" =>
         \A h \in Hands, g \in {"pick", "drop"} :
           LET emitted == GestureEventsOf(last'.events, h, g)
               since == now' - last_gesture_events[h][g]
           IN /\ Cardinality(emitted) <= 1
              /\ emitted # {}
                 => /\ since >= 2 * TicksPerSecond
                    /\ last_gesture_events'[h][g] = now'
              /\ emitted = {}
                 => last_gesture_events'[h][g] = last_gesture_events[h][g]
              /\ (HeldInside(last'.frame, h, g)
                  /\ since >= 2 * TicksPerSecond)
                 => emitted # {}]_vars

\* both hands are inside the zone and show a pick gesture: the left hand
\* emits its pick event less than 2.0 s after its drop event, the right
\* hand, less than 2.0 s after its own last pick event, emits none
C11_Witness ==
    /\ last.op = "detect_intersections"
    /\ \A i \in DOMAIN last.frame : last.frame[i].gesture = "pinch"
    /\ GestureEventsOf(last.events, "left_0", "pick") # {}
    /\ GestureEventsOf(last.events, "right_1", "pick") = {}
    /\ last_gesture_events["left_0"].pick = now
    /\ last_gesture_events["right_1"].pick > 0
    /\ now - last_gesture_events["right_1"].pick < 2 * TicksPerSecond
    /\ hand_zone_states[<<"right_1", "pick_000">>].is_inside
    /\ last_gesture_events["left_0"].drop > 0
    /\ now - last_gesture_events["left_0"].drop < 2 * TicksPerSecond

\* a frame has just been run through the detector
IsFrameCall ==
    last'.op \in {"detect_intersections", "process_frame_detections"}

\* C12: in every frame, a hand_enter_zone event for a (hand, zone) pair is
\* emitted only when the pair's tracker went from OUTSIDE to INSIDE in that
\* frame, and a hand_exit_zone event only when it went from INSIDE to
\* OUTSIDE (so, per pair, the two alternate).
C12_EventsOnStateChange ==
    [][IsFrameCall =>
         \A i \in DOMAIN last'.events :
           LET event == last'.events[i]
               key == <<event.hand_id, event.zone_id>>
           IN /\ event.type = "hand_enter_zone"
                 => /\ ~hand_zone_states[key].is_inside
                    /\ hand_zone_states'[key].is_inside
              /\ event.type = "hand_exit_zone"
                 => /\ hand_zone_states[key].is_inside
                    /\ ~hand_zone_states'[key].is_inside]_vars

\* ---------------------------------------- claims on the engine, continued
IsPickCall(h, z) ==
    /\ last'.op = "handle_pick_event" /\ last'.hand = h /\ last'.zone = z

\* the processes that name z as their pick zone
PickOwners(procs, z) ==
    {procs[i].id : i \in {k \in DOMAIN procs : procs[k].pick_zone_id = z}}

\* C13: handle_pick_event(h, z) returns False and changes nothing when no
\* process has z as its pick zone; otherwise it returns True, h's active
\* pick becomes (P, z) with P a process that has z as its pick zone, the
\* other hands keep their picks and no process changes.
C13_HandlePickEvent ==
    [][\A h \in Hands, z \in ZoneIds :
         IsPickCall(h, z)
         => IF PickOwners(processes, z) = {}
            THEN /\ last'.ret = FALSE
                 /\ pm_active_picks' = pm_active_picks
                 /\ processes' = processes
            ELSE /\ last'.ret = TRUE
                 /\ pm_active_picks'[h].zone_id = z
                 /\ pm_active_picks'[h].process_id \in PickOwners(processes, z)
                 /\ OtherHandsKeepPicks(h)
                 /\ processes' = processes]_vars

\* a hand has just picked in the pick zone of the second process while the
\* other hand holds a pick and a counter is already above zero
C13_Witness ==
    /\ last.op = "handle_pick_event"
    /\ last.ret = TRUE
    /\ pm_active_picks[last.hand] =
           [process_id |-> ProcessId(2), zone_id |-> last.zone]
    /\ \E g \in Hands \ {last.hand} : pm_active_picks[g] # NoPick
    /\ \E i \in DOMAIN processes :
           processes[i].completed_count + processes[i].error_count > 0

C16_ZoneIdsUnique ==
    [][last'.op = "create_zone_direct"
       => /\ last'.ret = TRUE
          /\ last'.zone \notin ZoneIdsOf(zones)
          /\ Len(zones') = Len(zones) + 1
          /\ zones'[Len(zones')].id = last'.zone
          /\ Cardinality(ZoneIdsOf(zones')) = Len(zones')]_vars

\* ------------------------------------------------------ claims on the host
\* C17: the camera thread is never inside process_frame_detections while
\* the GUI thread is inside delete_zone or clear_all_zones of the same
\* zone manager.
C17_HostSerialises ==
    ~ /\ host.camera \in {"process_frame_detections",
                          "process_interaction_events"}
      /\ host.gui \in {"delete_zone", "clear_all_zones"}

\* ------------------------------------------- claims on the active picks
\* positions in fwd of the picks forwarded for hand h
PicksOf(fwd, h) ==
    {i \in DOMAIN fwd : fwd[i].kind = "pick" /\ fwd[i].hand = h}

\* positions in fwd of the picks of hand h the engine accepted
AcceptedPicksOf(fwd, h) == {i \in PicksOf(fwd, h) : fwd[i].ret}

\* greatest element of a non-empty set of positions
Latest(S) == CHOOSE i \in S : \A j \in S : j <= i

\* C18: a batch of pick events leaves each hand with one active pick at
\* most, in the router and in the engine: the router's record of a hand
\* that picked is its latest pick, the engine's is the latest pick the
\* engine accepted, an earlier pick of the hand is replaced, and a hand
\* that did not pick keeps what it had.
C18_OneActivePickPerHand ==
    [][(IsBatchCall /\ \A i \in DOMAIN last'.fwd : last'.fwd[i].kind = "pick")
       => \A h \in Hands :
            LET sent == PicksOf(last'.fwd, h)
                taken == AcceptedPicksOf(last'.fwd, h)
            IN /\ zm_active_picks'[h] =
                      IF sent = {} THEN zm_active_picks[h]
                      ELSE last'.fwd[Latest(sent)].zone
               /\ IF taken = {} THEN pm_active_picks'[h] = pm_active_picks[h]
                  ELSE /\ pm_active_picks'[h].zone_id =
                              last'.fwd[Latest(taken)].zone
                       /\ pm_active_picks'[h].process_id
                              \in PickOwners(processes, pm_active_picks'[h].zone_id)]_vars

\* one batch carried two picks of the left hand in different zones, the
\* engine accepted both, and the router and the engine hold the second
C18_Witness ==
    /\ last.op = "process_interaction_events"
    /\ Len(last.fwd) = 2
    /\ \A i \in {1, 2} : /\ last.fwd[i].kind = "pick"
                         /\ last.fwd[i].hand = "left_0"
                         /\ last.fwd[i].ret
    /\ last.fwd[1].zone # last.fwd[2].zone
    /\ zm_active_picks["left_0"] = last.fwd[2].zone
    /\ pm_active_picks["left_0"].zone_id = last.fwd[2].zone

\* ---------------------------------------- claims on the engine, continued
\* C19: associate_zones(p, pz, dz) with an unknown p returns False and
\* changes nothing; with a known p it returns True, p's zones become
\* (pz, dz) whatever they were, p keeps its id and counters, every other
\* process, the counter and the active picks stay as they were; and the
\* same call made again right after leaves the state it found.
C19_AssociateZones ==
    [][last'.op = "associate_zones"
       => LET p == last'.args[1]
              others == <<process_counter, pm_active_picks, zones,
                          session_stats, zm_active_picks>>
          IN /\ others' = others
             /\ IF p \notin ProcessIdsOf(processes)
                THEN /\ last'.ret = FALSE
                     /\ processes' = processes
                     /\ config_file' = config_file
                ELSE /\ last'.ret = TRUE
                     /\ ProcessIdsOf(processes') = ProcessIdsOf(processes)
                     /\ get_process(processes', p) =
                            [get_process(processes, p) EXCEPT
                                !.pick_zone_id = last'.args[2],
                                !.drop_zone_id = last'.args[3]]
                     /\ \A q \in ProcessIdsOf(processes) \ {p} :
                            get_process(processes', q) = get_process(processes, q)
             /\ (last.op = "associate_zones" /\ last.args = last'.args)
                => (processes' = processes /\ config_file' = config_file)]_vars

\* the second process, associated before and holding a completion, has
\* just been given other zones while the first process kept its own
C19_Witness ==
    /\ last.op = "associate_zones"
    /\ last.ret = TRUE
    /\ last.args[1] = ProcessId(2)
    /\ Len(processes) = 2
    /\ processes[2].completed_count = 1
    /\ processes[2].pick_zone_id = last.args[2]
    /\ processes[2].drop_zone_id = last.args[3]
    /\ processes[1].pick_zone_id # None
    /\ processes[1].pick_zone_id # processes[2].pick_zone_id
    /\ \E h \in Hands : /\ pm_active_picks[h].process_id = ProcessId(2)
                        /\ pm_active_picks[h].zone_id # last.args[2]

\* C20: the statistics report as total_completed and total_errors the
\* sums of the counters of the processes that exist, and as success_rate
\* total_completed / (total_completed + total_errors) x 100, which is 0.0
\* when nothing was completed and nothing failed; 3 completed and 1 error
\* give 75.0.
C20_Statistics ==
    last.op = "get_statistics"
    => LET done == {<<i, k>> \in (DOMAIN processes) \X (1..MaxTally + 1) :
                        k <= processes[i].completed_count}
           failed == {<<i, k>> \in (DOMAIN processes) \X (1..MaxTally + 1) :
                          k <= processes[i].error_count}
           c == Cardinality(done)
           e == Cardinality(failed)
           rate == last.stats.success_rate
       IN /\ last.stats.total_completed = c
          /\ last.stats.total_errors = e
          /\ rate.den > 0
          /\ IF c + e = 0
             THEN rate = Zero
             ELSE rate.num * (c + e) = 100 * c * rate.den
          /\ (c = 3 /\ e = 1) => rate = [num |-> 75, den |-> 1]

\* the statistics were read with three completions and one error spread
\* over two processes
C20_Witness ==
    /\ last.op = "get_statistics"
    /\ Len(processes) = 2
    /\ processes[1].completed_count = 2
    /\ processes[2].completed_count = 1
    /\ processes[2].error_count = 1
    /\ processes[1].error_count = 0
    /\ last.stats.total_completed = 3
    /\ last.stats.total_errors = 1
    /\ last.stats.success_rate = [num |-> 75, den |-> 1]

\* ---------------------------------------- claims on the router, continued
\* C21: the processed-event set of the router never holds more than 100
\* entries, whatever events were handled.
C21_ProcessedEventsBounded ==
    ProcessedSize(processed_events) <= EventCap

\* a batch was handled with the set already full: an event of it was
\* counted, its key was added and the cleanup brought the set back to 100
C21_Witness ==
    /\ last.op = "process_interaction_events"
    /\ last.fwd # <<>>
    /\ processed_events.others > 0
    /\ ProcessedSize(processed_events) = EventCap

\* C22: delete_zone and update_zone on a zone id that is not in the
\* collection, and delete_process on a process id that does not exist,
\* return False, emit no signal and leave the zones, the session
\* statistics, the active picks, the detector state, the processes and
\* the saved file as they were.
C22_UnknownIdentifier ==
    [][/\ (last'.op \in {"delete_zone", "update_zone"}
           /\ last'.zone \notin ZoneIdsOf(zones))
          => /\ last'.ret = FALSE
             /\ last'.signals = <<>>
             /\ UNCHANGED <<routerVars, detectorVars, engineVars>>
       /\ (last'.op = "delete_process"
           /\ last'.branch \notin ProcessIdsOf(processes))
          => /\ last'.ret = FALSE
             /\ UNCHANGED <<routerVars, detectorVars, engineVars>>]_vars

\* a zone that is not there was deleted while a hand was inside another
\* zone with a pick pending and a process existed
C22_Witness ==
    /\ last.op = "delete_zone"
    /\ last.ret = FALSE
    /\ zones # <<>>
    /\ processes # <<>>
    /\ session_stats.zones_deleted > 0
    /\ zm_active_picks["left_0"] # None
    /\ \E z \in ZoneIdsOf(zones) : hand_zone_states[<<"left_0", z>>].is_inside

\* C23: every zone of the collection has a positive width and a positive
\* height.
C23_ZonesHavePositiveSize ==
    \A i \in DOMAIN zones : zones[i].width > 0 /\ zones[i].height > 0

\* ------------------------------------------------------ claims on geometry
\* C24: two rectangles intersect exactly when their overlap has a positive
\* width and a positive height; rectangles that share only an edge or a
\* corner do not intersect.
C24_TouchingDoesNotIntersect ==
    last.op = "intersects_rectangle"
    => LET a == last.args[1]
           b == last.args[2]
           overlap_width == Min(a.x + a.width, b.x + b.width) - Max(a.x, b.x)
           overlap_height ==
               Min(a.y + a.height, b.y + b.height) - Max(a.y, b.y)
       IN last.ret <=> (overlap_width > 0 /\ overlap_height > 0)

\* ------------------------------------- claims on the engine's file
\* C25: a manager whose load_processes failed holds no process at all.
C25_FailedLoadIsEmpty ==
    [][(last'.op = "ProcessManager_init" /\ last'.ret = FALSE)
       => processes' = <<>>]_vars

\* -------------------------------------- claims on the tracker, continued
\* C26: update_confidence switches the tracker to INSIDE only when five
\* samples have been fed and each of the latest five is above 0.6, to
\* OUTSIDE only when each of the latest five is below 0.3; a sample from
\* 0.3 to 0.6 among the latest five keeps is_inside as it was; and the
\* call returns True exactly when is_inside changed.
C26_TransitionGuards ==
    [][IsUpdateCall =>
         LET h == hzs'.confidence_history
             recent == {i \in DOMAIN h : i > Len(h) - 5}
         IN /\ (~hzs.is_inside /\ hzs'.is_inside)
               => (Len(h) >= 5 /\ \A i \in recent : h[i] > 60)
            /\ (hzs.is_inside /\ ~hzs'.is_inside)
               => (Len(h) >= 5 /\ \A i \in recent : h[i] < 30)
            /\ (\E i \in recent : h[i] >= 30 /\ h[i] <= 60)
               => (hzs'.is_inside = hzs.is_inside)
            /\ last'.ret <=> (hzs'.is_inside # hzs.is_inside)]_vars

\* five samples above 0.6 switched the tracker to INSIDE and the fifth
\* sample below 0.3 after them has just switched it to OUTSIDE
C26_Witness ==
    /\ last.op = "update_confidence"
    /\ last.ret = TRUE
    /\ ~hzs.is_inside
    /\ hzs.confidence_history = <<80, 80, 80, 80, 80, 20, 20, 20, 20, 20>>
    /\ hzs.exit_time = transition_at

\* ---------------------------------------- claims on the detector, continued
\* C27: in every frame, a hand that is INSIDE a zone after the tracker
\* update, shows pinch or closed and has its pick cooldown elapsed gets a
\* pick_gesture_detected event for that zone, also in the frame in which
\* the tracker switched to INSIDE; likewise a drop_gesture_detected event
\* for the open gesture.
C27_GestureInEveryFrame ==
    [][last'.op = "detect_intersections" =>
         \A i \in DOMAIN last'.frame : \A g \in {"pick", "drop"} :
           LET h == last'.frame[i].hand_id IN
           \A k \in DOMAIN zones :
             (/\ hand_zone_states'[<<h, zones[k].id>>].is_inside
              /\ last'.frame[i].gesture \in LabelsOf(g)
              /\ now' - last_gesture_events[h][g] >= 2 * TicksPerSecond)
             => \E e \in GestureEventsOf(last'.events, h, g) :
                    last'.events[e].zone_id = zones[k].id]_vars

\* hand h is recorded as inside zone z, by the zone or by the detector
RecordedInside(h, z) ==
    /\ z \in ZoneIdsOf(zones)
    /\ \/ InList(get_zone(zones, z).hands_inside, h)
       \/ h \in active_intersections[z]

\* the latest frame did not show hand h
NotDetected(h) ==
    /\ last.op \in {"detect_intersections", "idle_frame"}
    /\ \A i \in DOMAIN last.frame : last.frame[i].hand_id # h

\* C28: a hand recorded as inside a zone that is no longer detected is
\* eventually removed from the zone's hands_inside and from the active
\* intersections (or is detected again).
C28_VanishedHandLeaves ==
    \A h \in Hands : \A z \in PickZoneIds :
        (RecordedInside(h, z) /\ NotDetected(h))
        ~> (~RecordedInside(h, z) \/ ~NotDetected(h))

\* ---------------------------------------- claims on the dedupe keys
\* C29: a hand_enter_zone event whose enter key is in the processed events
\* changes no counter and no active pick and is not forwarded; and an enter
\* key leaves the processed events only in clear_all_zones, in
\* reset_session_statistics or when the full set evicts it after another
\* key was added, never in the handling of an exit event.
C29_EnterKeyNeverRearmed ==
    [][/\ (/\ IsBatchCall
           /\ last'.events[1].type = "hand_enter_zone"
           /\ enter_key(last'.events[1]) \in processed_events.keys)
          => /\ session_stats' = session_stats
             /\ zm_active_picks' = zm_active_picks
             /\ last'.fwd = <<>>
       /\ \A key \in processed_events.keys \ processed_events'.keys :
              \/ last'.op \in {"clear_all_zones", "reset_session_statistics"}
              \/ /\ IsBatchCall
                 /\ last'.fwd # <<>>
                 /\ ProcessedSize(processed_events) = EventCap]_vars

\* a hand entered the pick zone and was counted, entered the drop zone and
\* was counted, and its next entry into the pick zone has just been
\* suppressed
C29_Witness ==
    /\ last.op = "process_interaction_events"
    /\ last.events[1].type = "hand_enter_zone"
    /\ last.events[1].zone_id \in ZoneIdsOf(zones)
    /\ get_zone(zones, last.events[1].zone_id).zone_type = "pick"
    /\ enter_key(last.events[1]) \in processed_events.keys
    /\ last.fwd = <<>>
    /\ session_stats.total_picks = 1
    /\ session_stats.total_drops = 1
    /\ zm_active_picks[last.events[1].hand_id] = None

\* C30: after a pick gesture of hand h in zone A and a drop gesture of h
\* in some zone B have been counted, a further pick_gesture_detected event
\* for (h, A) is counted again, adds 1 to total_picks and gives h an active
\* pick in A; and the drop gesture for (h, B) that follows it is counted
\* again too.
C30_GestureRepetitionCounted ==
    [][(IsBatchCall /\ Len(last'.events) = 1)
       => LET e == last'.events[1]
              h == e.hand_id
          IN /\ (/\ e.type = "pick_gesture_detected"
                 /\ pick_key(e) \in processed_events.keys
                 /\ \E z \in ZoneIds :
                        <<"drop_gesture", h, z>> \in processed_events.keys
                 /\ zm_active_picks[h] = None)
                => /\ session_stats'.total_picks =
                          session_stats.total_picks + 1
                   /\ zm_active_picks'[h] = e.zone_id
             /\ (/\ e.type = "drop_gesture_detected"
                 /\ drop_key(e) \in processed_events.keys
                 /\ zm_active_picks[h] # None)
                => /\ session_stats'.total_drops =
                          session_stats.total_drops + 1
                   /\ zm_active_picks'[h] = None]_vars

\* ------------------------------------------- claims on the eviction order
\* C31: when the processed-event set exceeds its cap the entries removed
\* are the ones inserted earliest: the key of an event counted in a call
\* is still in the set when the call returns, and an event that is twice
\* in one batch is forwarded at most once.
C31_EvictionOldestFirst ==
    [][(IsBatchCall /\ last'.fwd # <<>>)
       => /\ DedupeKey(last'.events[1]) \in processed_events'.keys
          /\ (Len(last'.events) = 2 /\ last'.events[1] = last'.events[2])
             => Len(last'.fwd) = 1]_vars

\* ------------------------------------ claims on the engine's file, continued
\* the number N of the id "process_N"
IdNumber(pid) == CHOOSE n \in 0..(MaxIssued + 1) : ProcessId(n) = pid

\* C32: after load_processes the process id counter is greater than the
\* numeric suffix of every loaded process id, whatever counter the file
\* stores or omits.
C32_CounterAboveLoadedIds ==
    [][(last'.op = "ProcessManager_init" /\ last'.ret)
       => \A i \in DOMAIN processes' :
              IdNumber(processes'[i].id) < process_counter']_vars

\* ------------------------------------- claims on the zone's interactions
\* the tracker of hand h and zone z goes from OUTSIDE to INSIDE in the step
Entered(h, z) ==
    /\ ~hand_zone_states[<<h, z>>].is_inside
    /\ hand_zone_states'[<<h, z>>].is_inside

C34_HistoryBounded ==
    [][IsUpdateCall
       => LET old == hzs.confidence_history
              new == hzs'.confidence_history
              dropped == Len(old) + 1 - Len(new)
          IN /\ Len(new) <= 15
             /\ Len(new) = IF Len(old) < 15 THEN Len(old) + 1 ELSE 15
             /\ new[Len(new)] = last'.sample
             /\ \A k \in 1..(Len(new) - 1) : new[k] = old[k + dropped]]_vars

\* eighteen samples were fed: the history holds the latest fifteen, the
\* three low ones fed first are gone
C34_Witness ==
    /\ last.op = "update_confidence"
    /\ last.n = 18
    /\ hzs.confidence_history =
           <<45, 45, 45, 45, 45, 45, 45, 80, 80, 80, 80, 80, 80, 80, 80>>
    /\ hzs.is_inside

\* ---------------------------------------------- claims on the host, continued
\* C35: when the camera thread's process_frame_detections call and the GUI
\* thread's delete_zone call have both returned, a zone that is no longer
\* in the collection has no tracker and is named by no router active
\* pick; and the routing of a frame counts and forwards picks and drops
\* only for zones that are in the collection at that time.
C35_DeleteDuringFrame ==
    [][/\ (host'.camera = "idle" /\ host'.gui = "idle")
          => \A z \in ZoneIds \ ZoneIdsOf(zones') : \A h \in Hands :
                 /\ hand_zone_states'[<<h, z>>].last_event_time
                        = NoState.last_event_time
                 /\ zm_active_picks'[h] # z
       /\ last'.op = "CameraThread_run_route"
          => \A i \in DOMAIN last'.fwd :
                 last'.fwd[i].zone \in ZoneIdsOf(zones)]_vars

\* ------------------------------------------- claims on the zone types
\* C36: a call of process_interaction_events adds to total_picks and
\* forwards a pick only for an event whose zone is of type PICK, and adds
\* to total_drops and forwards a drop only for an event whose zone is of
\* type DROP, for gesture events as for enter events.
C36_ZoneTypeRespected ==
    [][(IsBatchCall /\ last'.events[1].zone_id \in ZoneIdsOf(zones))
       => LET zone_type == get_zone(zones, last'.events[1].zone_id).zone_type
          IN /\ session_stats'.total_picks > session_stats.total_picks
                => zone_type = "pick"
             /\ session_stats'.total_drops > session_stats.total_drops
                => zone_type = "drop"
             /\ \A i \in DOMAIN last'.fwd :
                    last'.fwd[i].kind = zone_type]_vars

\* ----------------------------------------- claims on the router's accounts
\* the hands that have a router active pick
PickingHands(picks) == {h \in Hands : picks[h] # None}

\* C37: after every step total_drops + (number of router active picks) is
\* at most total_picks; and a call that counts a drop of a hand finds an
\* active pick of that hand and removes it, one pick for each drop counted.
C37_RouterAccounting ==
    [][/\ session_stats'.total_drops
              + Cardinality(PickingHands(zm_active_picks'))
          <= session_stats'.total_picks
       /\ IsBatchCall
          => LET drops == session_stats'.total_drops
                              - session_stats.total_drops
                 h == last'.events[1].hand_id
             IN drops > 0
                => /\ drops = 1
                   /\ zm_active_picks[h] # None
                   /\ zm_active_picks'[h] = None]_vars

\* both hands picked, one of them dropped, and the zone the other picked
\* in has just been deleted: two picks, one drop, no active pick
C37_Witness ==
    /\ last.op = "delete_zone"
    /\ last.ret
    /\ session_stats.total_picks = 2
    /\ session_stats.total_drops = 1
    /\ session_stats.zones_deleted = 1
    /\ PickingHands(zm_active_picks) = {}

\* ----------------------------------------- claims on the engine's accounts
\* the picks the engine has resolved or still holds: the completions and
\* the errors of all processes and the active picks
Accounted(procs, picks) ==
    SumCounts(procs, "completed_count", Len(procs))
    + SumCounts(procs, "error_count", Len(procs))
    + Cardinality({h \in Hands : picks[h] # NoPick})

\* C38: with no process deleted, (sum of completed_count) + (sum of
\* error_count) + (number of active picks) never exceeds the number of
\* handle_pick_event calls that returned True: that sum is 0 at the
\* start, grows by at most 1 in a handle_pick_event call that returns
\* True and grows in no other call; and a handle_drop_event call adds at
\* most one completion or error, taking one active pick away when it
\* does.
C38_EngineAccounting ==
    [][LET before == Accounted(processes, pm_active_picks)
           after == Accounted(processes', pm_active_picks')
           resolved == after - Cardinality({h \in Hands :
                                               pm_active_picks'[h] # NoPick})
                       - (before - Cardinality({h \in Hands :
                                               pm_active_picks[h] # NoPick}))
       IN /\ (last'.op = "handle_pick_event" /\ last'.ret)
             => (after <= before + 1 /\ resolved = 0)
          /\ ~(last'.op = "handle_pick_event" /\ last'.ret)
             => after <= before
          /\ last'.op = "handle_drop_event"
             => /\ resolved \in {0, 1}
                /\ resolved = 1
                   => /\ pm_active_picks[last'.hand] # NoPick
                      /\ pm_active_picks'[last'.hand] = NoPick
                      /\ after = before]_vars

\* one pick was completed, one ended in an error and one is still active
C38_Witness ==
    /\ last.op = "handle_drop_event"
    /\ last.branch = "wrong_process"
    /\ SumCounts(processes, "completed_count", Len(processes)) = 1
    /\ SumCounts(processes, "error_count", Len(processes)) = 1
    /\ Cardinality({h \in Hands : pm_active_picks[h] # NoPick}) = 1

\* ------------------------------------ claims on the engine's active picks
\* C39: every active pick of the engine names a process that exists: for
\* each hand with a pick (p, z), p is a key of processes.
C39_ActivePicksNameProcesses ==
    \A h \in Hands :
        pm_active_picks[h] # NoPick
        => pm_active_picks[h].process_id \in ProcessIdsOf(processes)

\* all processes were cleared after two had been created, process_1 was
\* created again, and a hand has just picked in it while the other hand's
\* pick was taken away by a deletion or by the clearing
C39_Witness ==
    /\ last.op = "handle_pick_event"
    /\ last.ret
    /\ ProcessId(2) \in issued
    /\ process_counter = 2
    /\ ProcessIdsOf(processes) = {ProcessId(1)}
    /\ pm_active_picks[last.hand].process_id = ProcessId(1)
    /\ \E g \in Hands \ {last.hand} : pm_active_picks[g] = NoPick
    /\ processes[1].completed_count = 0
    /\ config_file.process_counter = 2

\* ------------------------------------------ claims on the tracker keys
\* the fields of a tracker that a reset or a frame can change
SameTracker(a, b) ==
    /\ a.confidence_history = b.confidence_history
    /\ a.is_inside = b.is_inside
    /\ a.last_event_time = b.last_event_time

\* C40: reset_zone_states(z) removes the trackers of zone z and leaves
\* the tracker of every hand for every other zone as it was, also when
\* the id of z is the end of another zone's id after an underscore.
C40_ResetOnlyThatZone ==
    [][last'.op = "reset_zone_states"
       => \A key \in DOMAIN hand_zone_states :
              IF key[2] = last'.zone
              THEN SameTracker(hand_zone_states'[key], NoState)
              ELSE SameTracker(hand_zone_states'[key],
                               hand_zone_states[key])]_vars

====
